---- MODULE Spec2Model ----
(***************************************************************************)
(* Model of the LLM hardware calculator: the memory estimator              *)
(* (src/src/utils/calculator.js), the catalog fetch / cache / normalizer   *)
(* and the GPU recommendation engine (src/src/utils/gpuData.js).           *)
(*                                                                         *)
(* Conventions                                                             *)
(*  - Memory amounts (GB) are integers in hundredths of a GB.              *)
(*  - JavaScript strings are sequences of one-character strings, so that   *)
(*    toLowerCase / includes / replace are computed, not assumed.          *)
(*  - The scores and totals of the recommendation engine are JavaScript    *)
(*    Numbers (IEEE 754 double precision), computed with the rounding of   *)
(*    every operation of the source.                                       *)
(***************************************************************************)
EXTENDS Integers, Sequences, FiniteSets, TLC

(***************************************************************************)
(* Bounds of the model                                                     *)
(***************************************************************************)
MaxGpus == 2

(***************************************************************************)
(* Strings                                                                 *)
(***************************************************************************)
UpperChars == <<"A","B","C","D","E","F","G","H","I","J","K","L","M",
                "N","O","P","Q","R","S","T","U","V","W","X","Y","Z">>
LowerChars == <<"a","b","c","d","e","f","g","h","i","j","k","l","m",
                "n","o","p","q","r","s","t","u","v","w","x","y","z">>
DigitChars == {"0","1","2","3","4","5","6","7","8","9"}

LowerChar(c) ==
  IF \E i \in 1..26 : UpperChars[i] = c
  THEN LowerChars[CHOOSE i \in 1..26 : UpperChars[i] = c]
  ELSE c

toLowerCase(s) == [i \in 1..Len(s) |-> LowerChar(s[i])]

includes(s, t) ==
  \E i \in 1..(Len(s) - Len(t) + 1) : SubSeq(s, i, i + Len(t) - 1) = t

IsWordChar(c) ==
  \/ c \in DigitChars
  \/ c = "_"
  \/ \E i \in 1..26 : LowerChars[i] = c \/ UpperChars[i] = c

\* /\bw\d{4}\b/.test(name)
MatchesWSeries(name) ==
  \E i \in 1..(Len(name) - 4) :
    /\ name[i] = "w"
    /\ (i = 1 \/ ~IsWordChar(name[i - 1]))
    /\ \A k \in 1..4 : name[i + k] \in DigitChars
    /\ (i + 4 = Len(name) \/ ~IsWordChar(name[i + 5]))

\* gpu.isUnified read as a condition: a missing property is falsy
IsUnifiedOf(gpu) == IF "isUnified" \in DOMAIN gpu THEN gpu.isUnified ELSE FALSE

(***************************************************************************)
(* Exact arithmetic helpers                                                *)
(***************************************************************************)
\* the least integer that is not below a / b, in exact arithmetic (the ceiling
\* of the properties; Math.ceil of the code works on Numbers, see FCeil)
CeilDiv(a, b) == (a + b - 1) \div b

Min(a, b) == IF a <= b THEN a ELSE b

RECURSIVE MulDivMod(_, _, _)
\* [q, r] with a * b = q * m + r and 0 <= r < m, without forming a * b
MulDivMod(a, b, m) ==
  IF a = 0 THEN [q |-> 0, r |-> 0]
  ELSE LET h == MulDivMod(a \div 2, b, m)
           t == 2 * h.r + (IF a % 2 = 1 THEN b % m ELSE 0)
       IN  [q |-> 2 * h.q + (IF a % 2 = 1 THEN b \div m ELSE 0) + t \div m,
            r |-> t % m]

(***************************************************************************)
(* Natural numbers of any size                                             *)
(*                                                                         *)
(* A mantissa of a JavaScript Number has 53 bits.  A large natural number  *)
(* is the sequence of its digits in base 2^15, lowest digit first, without *)
(* leading zeros; zero is the empty sequence.                              *)
(***************************************************************************)
Base == 32768
BaseBits == 15

RECURSIVE Trim(_)
Trim(x) ==
  IF Len(x) > 0 /\ x[Len(x)] = 0 THEN Trim(SubSeq(x, 1, Len(x) - 1)) ELSE x

Limb(x, i) == IF i <= Len(x) THEN x[i] ELSE 0

\* n >= 0
BigFromInt(n) == Trim(<<n % Base, (n \div Base) % Base, n \div (Base * Base)>>)

\* x < 2^31
BigToInt(x) == Limb(x, 1) + Base * Limb(x, 2) + Base * Base * Limb(x, 3)

BigCmp(a, b) ==
  IF Len(a) # Len(b) THEN (IF Len(a) < Len(b) THEN -1 ELSE 1)
  ELSE LET diff == {i \in 1..Len(a) : a[i] # b[i]}
       IN  IF diff = {} THEN 0
           ELSE LET i == CHOOSE x \in diff : \A y \in diff : x >= y
                IN  IF a[i] < b[i] THEN -1 ELSE 1

RECURSIVE AddFrom(_, _, _, _)
AddFrom(a, b, i, carry) ==
  IF i > Len(a) /\ i > Len(b)
  THEN (IF carry > 0 THEN <<carry>> ELSE <<>>)
  ELSE <<(Limb(a, i) + Limb(b, i) + carry) % Base>>
         \o AddFrom(a, b, i + 1, (Limb(a, i) + Limb(b, i) + carry) \div Base)

BigAdd(a, b) == AddFrom(a, b, 1, 0)

RECURSIVE SubFrom(_, _, _, _)
SubFrom(a, b, i, borrow) ==
  IF i > Len(a) THEN <<>>
  ELSE <<(a[i] - Limb(b, i) - borrow + Base) % Base>>
         \o SubFrom(a, b, i + 1, IF a[i] - Limb(b, i) - borrow < 0 THEN 1 ELSE 0)

\* a - b for a >= b
BigSub(a, b) == Trim(SubFrom(a, b, 1, 0))

RECURSIVE MulSmallFrom(_, _, _, _)
MulSmallFrom(a, k, i, carry) ==
  IF i > Len(a) THEN (IF carry > 0 THEN <<carry>> ELSE <<>>)
  ELSE <<(a[i] * k + carry) % Base>>
         \o MulSmallFrom(a, k, i + 1, (a[i] * k + carry) \div Base)

\* a * k for 0 <= k < 2^15
BigMulSmall(a, k) == IF k = 0 THEN <<>> ELSE MulSmallFrom(a, k, 1, 0)

\* a * 2^(15 n)
ShiftLimbs(a, n) == IF Len(a) = 0 THEN a ELSE [i \in 1..n |-> 0] \o a

RECURSIVE MulFrom(_, _, _)
MulFrom(a, b, i) ==
  IF i > Len(b) THEN <<>>
  ELSE BigAdd(ShiftLimbs(BigMulSmall(a, b[i]), i - 1), MulFrom(a, b, i + 1))

BigMul(a, b) == MulFrom(a, b, 1)

\* a * 2^n
BigShl(a, n) == ShiftLimbs(BigMulSmall(a, 2 ^ (n % BaseBits)), n \div BaseBits)

RECURSIVE DivSmallFrom(_, _, _, _)
\* the digits of the quotient from digit i down, highest first
DivSmallFrom(a, k, i, rem) ==
  IF i = 0 THEN <<>>
  ELSE DivSmallFrom(a, k, i - 1, (rem * Base + a[i]) % k)
         \o <<(rem * Base + a[i]) \div k>>

\* floor(a / k) for 0 < k < 2^15
BigDivSmall(a, k) == Trim(DivSmallFrom(a, k, Len(a), 0))

\* floor(a / 2^n)
BigShr(a, n) ==
  IF n \div BaseBits >= Len(a) THEN <<>>
  ELSE BigDivSmall(SubSeq(a, n \div BaseBits + 1, Len(a)), 2 ^ (n % BaseBits))

\* the number of bits of 0 <= k < 2^15
BitsOfLimb(k) == Cardinality({j \in 0..(BaseBits - 1) : 2 ^ j <= k})

BitLen(a) ==
  IF Len(a) = 0 THEN 0 ELSE BaseBits * (Len(a) - 1) + BitsOfLimb(a[Len(a)])

BigIsOdd(a) == Len(a) > 0 /\ a[1] % 2 = 1

RECURSIVE Fit(_, _, _, _)
\* the largest q <= qhat with q * d <= rem, given its product p = qhat * d
Fit(rem, d, qhat, p) ==
  IF BigCmp(p, rem) <= 0 THEN [q |-> qhat, rem |-> BigSub(rem, p)]
  ELSE Fit(rem, d, qhat - 1, BigSub(p, d))

\* one digit of a long division: floor(rem / d) for rem < d * 2^15, where the
\* highest digit of d is at least 2^14
DivDigit(rem, d) ==
  IF BigCmp(rem, d) < 0 THEN [q |-> 0, rem |-> rem]
  ELSE LET n == Len(d)
           top == Limb(rem, n + 1) * Base + Limb(rem, n)
           qhat == IF top \div d[n] >= Base THEN Base - 1 ELSE top \div d[n]
       IN  Fit(rem, d, qhat, BigMulSmall(d, qhat))

RECURSIVE DivFrom(_, _, _, _)
\* the quotient digits of the lower places followed by the digit of place i
DivAppend(rest, digit) == [q |-> rest.q \o <<digit.q>>, rem |-> rest.rem]

DivStep(a, d, i, digit) == DivAppend(DivFrom(a, d, i - 1, digit.rem), digit)

\* long division of the digits i..1 of a by d: [q, rem] with q the digits
\* of the quotient
DivFrom(a, d, i, rem) ==
  IF i = 0 THEN [q |-> <<>>, rem |-> rem]
  ELSE DivStep(a, d, i, DivDigit(Trim(<<a[i]>> \o rem), d))

\* the shift that brings the highest digit of d to at least 2^14
DivShift(d) == BaseBits - BitsOfLimb(d[Len(d)])

DivResult(r) == [q |-> Trim(r.q), exact |-> Len(r.rem) = 0]

DivScaled(a, d) == DivResult(DivFrom(a, d, Len(a), <<>>))

\* [q, exact]: q = floor(a / d), exact when the remainder is zero; d > 0
BigDiv(a, d) == DivScaled(BigShl(a, DivShift(d)), BigShl(d, DivShift(d)))

(***************************************************************************)
(* The JavaScript Number: IEEE 754 double precision                        *)
(*                                                                         *)
(* A Number x >= 0 is [m, e] with x = m * 2^e and 2^52 <= m < 2^53; zero   *)
(* is [m |-> <<>>, e |-> 0].  Every operation rounds its exact result to   *)
(* the nearest Number, ties to the even mantissa.  Subnormal numbers,      *)
(* infinities and negative numbers do not occur in the values handled.     *)
(***************************************************************************)
MantissaBits == 53

FZero == [m |-> <<>>, e |-> 0]

\* m0 or its successor: up when the rest is above half (cmp > 0), or is half
\* and sticky is set or m0 is odd
RoundUp(m0, cmp, sticky) ==
  IF cmp > 0 \/ (cmp = 0 /\ (sticky \/ BigIsOdd(m0)))
  THEN BigAdd(m0, <<1>>) ELSE m0

\* a rounded mantissa that reached 2^53 is halved
Normalize(m, e) ==
  IF BitLen(m) > MantissaBits
  THEN [m |-> BigShr(m, 1), e |-> e + 1]
  ELSE [m |-> m, e |-> e]

\* q without its lowest t bits (m0), rounded by the value of those bits
RoundBits(q, sticky, e, t, m0) ==
  Normalize(RoundUp(m0, BigCmp(BigSub(q, BigShl(m0, t)), BigShl(<<1>>, t - 1)),
                    sticky),
            e + t)

\* The nearest Number to a value v with q * 2^e <= v < (q + 1) * 2^e; sticky
\* tells that v > q * 2^e, and then q has at least 55 bits.
RoundToNumber(q, sticky, e) ==
  IF Len(q) = 0 THEN FZero
  ELSE IF BitLen(q) <= MantissaBits
  THEN [m |-> BigShl(q, MantissaBits - BitLen(q)),
        e |-> e - (MantissaBits - BitLen(q))]
  ELSE RoundBits(q, sticky, e, BitLen(q) - MantissaBits,
                 BigShr(q, BitLen(q) - MantissaBits))

\* the shift that gives the quotient of n * 2^s by d at least 55 bits
RatioShift(n, d) ==
  IF 56 + BitLen(d) - BitLen(n) > 0 THEN 56 + BitLen(d) - BitLen(n) ELSE 0

RatioRounded(r, e) == RoundToNumber(r.q, ~r.exact, e)

RatioScaled(n, d, e, s) == RatioRounded(BigDiv(BigShl(n, s), d), e - s)

\* the nearest Number to (n / d) * 2^e, for naturals n and d > 0
FRatio(n, d, e) ==
  IF Len(n) = 0 THEN FZero ELSE RatioScaled(n, d, e, RatioShift(n, d))

\* the Number a literal or parseFloat gives for h / 100
FHundredths(h) == FRatio(BigFromInt(h), <<100>>, 0)

\* the Number of an integer 0 <= n < 2^31
FInt(n) == RoundToNumber(BigFromInt(n), FALSE, 0)

\* x * y
FMul(x, y) == RoundToNumber(BigMul(x.m, y.m), FALSE, x.e + y.e)

\* x / y, y > 0
FDiv(x, y) == FRatio(x.m, y.m, x.e - y.e)

\* hi + lo for hi.e >= lo.e
AddAligned(hi, lo) ==
  RoundToNumber(BigAdd(BigShl(hi.m, hi.e - lo.e), lo.m), FALSE, lo.e)

\* x + y
FAdd(x, y) ==
  IF Len(x.m) = 0 THEN y
  ELSE IF Len(y.m) = 0 THEN x
  ELSE IF x.e >= y.e THEN AddAligned(x, y) ELSE AddAligned(y, x)

\* sign of x - y
FCmp(x, y) ==
  IF Len(x.m) = 0 \/ Len(y.m) = 0
  THEN (IF Len(x.m) = Len(y.m) THEN 0 ELSE IF Len(x.m) = 0 THEN -1 ELSE 1)
  ELSE IF x.e # y.e THEN (IF x.e < y.e THEN -1 ELSE 1)
  ELSE BigCmp(x.m, y.m)

\* w = floor(x), and one more when x has a fraction
CeilFrom(x, w) ==
  BigToInt(w) + (IF BigCmp(BigShl(w, -x.e), x.m) = 0 THEN 0 ELSE 1)

\* Math.ceil(x) as an integer, for x < 2^31
FCeil(x) ==
  IF Len(x.m) = 0 THEN 0
  ELSE IF x.e >= 0 THEN BigToInt(BigShl(x.m, x.e))
  ELSE CeilFrom(x, BigShr(x.m, -x.e))

RECURSIVE SqrtFrom(_, _)
SqrtStep(n, x, y) == IF BigCmp(y, x) >= 0 THEN x ELSE SqrtFrom(n, y)

\* floor(sqrt(n)) by Newton's iteration from an estimate x >= sqrt(n)
SqrtFrom(n, x) == SqrtStep(n, x, BigShr(BigAdd(x, BigDiv(n, x).q), 1))

BigSqrt(n) == SqrtFrom(n, BigShl(<<1>>, (BitLen(n) + 1) \div 2))

\* the Number of sqrt(big) * 2^-55 from r = floor(sqrt(big))
RootRounded(big, r) == RoundToNumber(r, BigCmp(BigMul(r, r), big) # 0, -55)

RootOf(big) == RootRounded(big, BigSqrt(big))

\* Math.sqrt(n) for an integer 0 <= n < 2^31
FSqrtInt(n) == IF n = 0 THEN FZero ELSE RootOf(BigShl(BigFromInt(n), 110))

(***************************************************************************)
(* Array helpers                                                           *)
(***************************************************************************)
\* Array.prototype.sort with a comparator that is a total preorder and does
\* not throw: a stable sort.  Cmp(a, b) is the sign of the comparator's
\* result; an element comes after those that compare lower and after those
\* that compare equal and stand before it in the list.
SortBy(list, Cmp(_, _)) ==
  LET Before(j, i) ==
        IF j < i THEN Cmp(list[j], list[i]) <= 0
        ELSE j # i /\ Cmp(list[j], list[i]) < 0
      place ==
        [i \in 1..Len(list) |->
           1 + Cardinality({j \in 1..Len(list) : Before(j, i)})] @@ <<>>
  IN  [p \in 1..Len(list) |-> list[CHOOSE i \in 1..Len(list) : place[i] = p]]

\* Array.prototype.filter
Filter(list, Keep(_)) ==
  LET f[i \in 0..Len(list)] ==
        IF i = 0 THEN <<>>
        ELSE IF Keep(list[i]) THEN Append(f[i - 1], list[i]) ELSE f[i - 1]
  IN  f[Len(list)]

\* the JavaScript null
Null == [null |-> TRUE]

\* list[0] || null
FirstOrNull(list) == IF Len(list) > 0 THEN list[1] ELSE Null

\* the entry of a table under a key, if any
Found(table, key) == IF key \in DOMAIN table THEN <<table[key]>> ELSE <<>>

FirstOr(found, other) == IF Len(found) > 0 THEN found[1] ELSE other

(***************************************************************************)
(* Memory estimator (calculator.js)                                        *)
(*                                                                         *)
(* modelParams is given in hundredths of a billion parameters and the      *)
(* bytes per parameter in bits.  The amounts of the calculation are        *)
(* Numbers, as in the code; a returned figure, which has two decimals, is  *)
(* given in hundredths of a GB.                                            *)
(* A parameter that has the name of a state variable of App.jsx carries a  *)
(* trailing underscore.                                                    *)
(***************************************************************************)
\* a rounding that drops the digits after the second decimal
toFixed2_Truncates(x) ==
  IF Len(x.m) = 0 THEN 0
  ELSE IF x.e >= 0 THEN BigToInt(BigShl(BigMulSmall(x.m, 100), x.e))
  ELSE BigToInt(BigShr(BigMulSmall(x.m, 100), -x.e))

\* parseFloat(x.toFixed(2)), in hundredths: the integer n for which n / 100
\* is nearest to the value of the Number x, the larger n of two
toFixed2(x) ==
  IF Len(x.m) = 0 THEN 0
  ELSE IF x.e >= 0 THEN BigToInt(BigShl(BigMulSmall(x.m, 100), x.e))
  ELSE BigToInt(BigShr(BigAdd(BigMulSmall(x.m, 200), BigShl(<<1>>, -x.e)),
                       1 - x.e))

\* eight times the bytes per parameter of the source (that is, bits)
getBytesPerParameter(quantization_) ==
  CASE quantization_ = "FP32" -> 32
    [] quantization_ \in {"FP16", "BF16"} -> 16
    [] quantization_ \in {"INT8", "FP8", "E5M2", "E4M3"} -> 8
    [] quantization_ = "INT5" -> 5
    [] quantization_ \in {"INT4", "NF4", "GPTQ4"} -> 4
    [] quantization_ = "INT3" -> 3
    [] quantization_ = "INT2" -> 2
    [] quantization_ \in {"GGUF_Q4_0", "GGUF_Q4_1"} -> 4
    [] quantization_ \in {"GGUF_Q5_0", "GGUF_Q5_1"} -> 5
    [] quantization_ = "GGUF_Q8_0" -> 8
    [] quantization_ = "GGUF_Q2_K" -> 2
    [] quantization_ = "GGUF_Q3_K" -> 3
    [] quantization_ = "GGUF_Q6_K" -> 6
    [] OTHER -> 16

\* the Number getBytesPerParameter returns: 4, 2, 1, 0.625, 0.5, 0.375 or 0.25
BytesOf(bits) == FRatio(BigFromInt(bits), <<8>>, 0)

\* 1e9
Giga == FInt(1000000000)
\* 1024 * 1024 * 1024
GiB == FInt(1073741824)

\* a model size that counts one byte for every parameter, whatever the format
calculateModelSizeGB_OneByte(modelParams_, bytesPerParam) ==
  FDiv(FMul(FMul(FHundredths(modelParams_), Giga), BytesOf(8)), GiB)

\* (modelParams * 1e9 * bytesPerParam) / (1024 * 1024 * 1024)
calculateModelSizeGB(modelParams_, bytesPerParam) ==
  FDiv(FMul(FMul(FHundredths(modelParams_), Giga), BytesOf(bytesPerParam)), GiB)

estimateLayers(modelParams_) ==
  IF modelParams_ <= 100 THEN 12
  ELSE IF modelParams_ <= 700 THEN 32
  ELSE IF modelParams_ <= 1300 THEN 40
  ELSE IF modelParams_ <= 7000 THEN 80
  ELSE 96

estimateHiddenDim(modelParams_) ==
  IF modelParams_ <= 100 THEN 768
  ELSE IF modelParams_ <= 700 THEN 4096
  ELSE IF modelParams_ <= 1300 THEN 5120
  ELSE IF modelParams_ <= 7000 THEN 8192
  ELSE 12288

\* a cache figure for a single token: the context length is left out of the
\* product
calculateKVCacheGB_NoContext(contextLength_, layers, hiddenDim, bytesPerParam, batchSize_) ==
  FDiv(FMul(FMul(FMul(FMul(FInt(2), FInt(layers)), FInt(hiddenDim)),
                 FInt(batchSize_)),
            BytesOf(bytesPerParam)),
       GiB)

\* (2 * layers * hiddenDim * contextLength * batchSize * bytesPerParam)
\*   / (1024 * 1024 * 1024), the product taken from left to right
calculateKVCacheGB(contextLength_, layers, hiddenDim, bytesPerParam, batchSize_) ==
  FDiv(FMul(FMul(FMul(FMul(FMul(FInt(2), FInt(layers)), FInt(hiddenDim)),
                      FInt(contextLength_)),
                 FInt(batchSize_)),
            BytesOf(bytesPerParam)),
       GiB)

\* modelSizeGB * 0.2
calculateActivationGB(modelSizeGB) == FMul(modelSizeGB, FHundredths(20))

\* the fixed overheads of calculateHardware, in hundredths of a GB
fixedOverheadGB == 150
osOverheadGB == 400

\* const vramMinGB = modelSizeGB + fixedOverheadGB
VramMinGB(modelSizeGB) == FAdd(modelSizeGB, FHundredths(fixedOverheadGB))

\* const vramRecGB = modelSizeGB + kvCacheGB + activationGB + fixedOverheadGB
VramRecGB(modelSizeGB, kvCacheGB, activationGB) ==
  FAdd(FAdd(FAdd(modelSizeGB, kvCacheGB), activationGB),
       FHundredths(fixedOverheadGB))

\* const ramMinGB = modelSizeGB + osOverheadGB
RamMinGB(modelSizeGB) == FAdd(modelSizeGB, FHundredths(osOverheadGB))

\* a recommended RAM figure that scales the model size only: modelSizeGB * 1.2
RamRecGB_NoOsOverhead(modelSizeGB) == FMul(modelSizeGB, FHundredths(120))

\* const ramRecGB = ramMinGB * 1.2, from the model size
RamRecGB(modelSizeGB) == FMul(RamMinGB(modelSizeGB), FHundredths(120))

\* the amounts of calculateHardware before they are rounded
AmountsOf(modelSizeGB, kvCacheGB, activationGB) ==
  [modelSizeGB |-> modelSizeGB,
   kvCacheGB |-> kvCacheGB,
   activationGB |-> activationGB,
   vramMinGB |-> VramMinGB(modelSizeGB),
   vramRecGB |-> VramRecGB(modelSizeGB, kvCacheGB, activationGB),
   ramMinGB |-> RamMinGB(modelSizeGB),
   ramRecGB |-> RamRecGB(modelSizeGB)]

SizedAmounts(modelSizeGB, kvCacheGB) ==
  AmountsOf(modelSizeGB, kvCacheGB, calculateActivationGB(modelSizeGB))

Amounts(modelParams_, quantization_, contextLength_, batchSize_) ==
  SizedAmounts(
    calculateModelSizeGB(modelParams_, getBytesPerParameter(quantization_)),
    calculateKVCacheGB(contextLength_, estimateLayers(modelParams_),
                       estimateHiddenDim(modelParams_),
                       getBytesPerParameter(quantization_), batchSize_))

\* the object calculateHardware returns for its amounts
ReturnedObject(amounts, estLayers, estHiddenDim, bytesPerParam) ==
  [modelSizeGB |-> toFixed2(amounts.modelSizeGB),
   kvCacheGB |-> toFixed2(amounts.kvCacheGB),
   activationGB |-> toFixed2(amounts.activationGB),
   overheadGB |-> fixedOverheadGB,
   vramMinGB |-> toFixed2(amounts.vramMinGB),
   vramRecGB |-> toFixed2(amounts.vramRecGB),
   ramMinGB |-> toFixed2(amounts.ramMinGB),
   ramRecGB |-> toFixed2(amounts.ramRecGB),
   assumptions |-> [estLayers |-> estLayers, estHiddenDim |-> estHiddenDim,
                    bytesPerParam |-> bytesPerParam, osOverheadGB |-> osOverheadGB,
                    activationFactor |-> 20]]

calculateHardware(modelParams_, quantization_, contextLength_, batchSize_) ==
  ReturnedObject(Amounts(modelParams_, quantization_, contextLength_, batchSize_),
                 estimateLayers(modelParams_), estimateHiddenDim(modelParams_),
                 getBytesPerParameter(quantization_))

\* A JavaScript call binds the arguments to the parameters by position and
\* drops the arguments beyond the declared four.
CallCalculateHardware(args) ==
  calculateHardware(args[1], args[2], args[3], args[4])

\* a returned figure that may be NaN
NaN == [nan |-> TRUE]
Num(h) == [nan |-> FALSE, v |-> h]

\* The kvCacheGB of calculateHardware when a quantization tag is bound to
\* contextLength and numbers to the other parameters: the product in
\* calculateKVCacheGB converts the tag, '' to 0 and any other tag to NaN,
\* and parseFloat(NaN.toFixed(2)) is NaN.
KvCacheForStringContext(modelParams_, quantization_, contextLength_, batchSize_) ==
  IF contextLength_ = ""
  THEN Num(calculateHardware(modelParams_, quantization_, 0, batchSize_).kvCacheGB)
  ELSE NaN

(***************************************************************************)
(* Raw catalog (JSON) values                                               *)
(*                                                                         *)
(* A JSON value is tagged with its JavaScript type.  A number holds        *)
(* hundredths.  An object holds a function from property names to values;  *)
(* the raw catalog itself is the sequence of its [key, value] entries in   *)
(* the order Object.entries enumerates them.                               *)
(***************************************************************************)
JStr(s) == [t |-> "string", v |-> s]
JNum(h) == [t |-> "number", v |-> h]
JObj(f) == [t |-> "object", v |-> f]
JBool(b) == [t |-> "boolean", v |-> b]
JNull == [t |-> "null"]

\* gpu[field]: undefined when the property is missing
HasProp(gpu, field) == field \in DOMAIN gpu.v

\* a value read as a condition
Truthy(x) ==
  CASE x.t = "string" -> Len(x.v) > 0
    [] x.t = "number" -> x.v # 0
    [] x.t = "boolean" -> x.v
    [] x.t = "object" -> TRUE
    [] x.t = "array" -> TRUE
    [] OTHER -> FALSE

\* (gpu.name || '').toLowerCase() and (gpu.vendor || '').toLowerCase() of a
\* device record whose name and vendor are strings, null or missing
NameOf(gpu) ==
  IF "name" \in DOMAIN gpu /\ gpu.name.t = "string" THEN gpu.name.v ELSE <<>>
VendorOf(gpu) ==
  IF "vendor" \in DOMAIN gpu /\ gpu.vendor.t = "string" THEN gpu.vendor.v ELSE <<>>

\* x.toLowerCase is not a function: x is neither a string nor null
NotLowerCased(x) == x.t \notin {"string", "null"}

\* (gpu.name || '').toLowerCase() or (gpu.vendor || '').toLowerCase() throws a
\* TypeError: the value is truthy and is not a string
LowerCaseThrows(gpu) ==
  \/ "name" \in DOMAIN gpu /\ Truthy(gpu.name) /\ NotLowerCased(gpu.name)
  \/ "vendor" \in DOMAIN gpu /\ Truthy(gpu.vendor) /\ NotLowerCased(gpu.vendor)

\* gpu.vendor?.toLowerCase() or gpu.name?.toLowerCase() throws a TypeError: ?.
\* stops at null and undefined only, so that 0 and false throw as well
OptionalLowerCaseThrows(gpu) ==
  \/ "vendor" \in DOMAIN gpu /\ NotLowerCased(gpu.vendor)
  \/ "name" \in DOMAIN gpu /\ NotLowerCased(gpu.name)

\* what a call gives when a TypeError leaves it
TypeError == [threw |-> "TypeError"]

IsSpace(c) == c = " "
IsDigit(c) == c \in DigitChars

\* no match of a regular expression: null for a match, -1 for a digit
NoMatch == -1
NullMatch == <<>>
NoReturn == -1

DigitValue(c) ==
  CASE c = "0" -> 0 [] c = "1" -> 1 [] c = "2" -> 2 [] c = "3" -> 3 [] c = "4" -> 4
    [] c = "5" -> 5 [] c = "6" -> 6 [] c = "7" -> 7 [] c = "8" -> 8 [] c = "9" -> 9

DigitChar(d) == <<"0","1","2","3","4","5","6","7","8","9">>[d + 1]

\* parseInt(digits, 10) for a run of digits
parseInt(digits) ==
  LET f[i \in 0..Len(digits)] ==
        IF i = 0 THEN 0 ELSE 10 * f[i - 1] + DigitValue(digits[i])
  IN  f[Len(digits)]

\* String(n) for a natural number
RECURSIVE NatToChars(_)
NatToChars(n) ==
  IF n < 10 THEN <<DigitChar(n)>>
  ELSE NatToChars(n \div 10) \o <<DigitChar(n % 10)>>

Abs(n) == IF n < 0 THEN -n ELSE n

\* the decimals of String(x): none, one or two
Decimals(c) ==
  IF c = 0 THEN <<>>
  ELSE IF c % 10 = 0 THEN <<".", DigitChar(c \div 10)>>
  ELSE <<".", DigitChar(c \div 10), DigitChar(c % 10)>>

\* String(x) for a number given in hundredths
NumToChars(h) ==
  (IF h < 0 THEN <<"-">> ELSE <<>>)
    \o NatToChars(Abs(h) \div 100) \o Decimals(Abs(h) % 100)

RECURSIVE StringOf(_)
RECURSIVE JoinFrom(_, _)
\* Array.prototype.join: the elements from the i-th on, separated by commas;
\* null gives the empty string
JoinFrom(list, i) ==
  IF i > Len(list) THEN <<>>
  ELSE (IF i > 1 THEN <<",">> ELSE <<>>)
         \o (IF list[i].t = "null" THEN <<>> ELSE StringOf(list[i]))
         \o JoinFrom(list, i + 1)

\* String(x), as a template literal and String.prototype.includes coerce x
StringOf(x) ==
  CASE x.t = "string" -> x.v
    [] x.t = "number" -> NumToChars(x.v)
    [] x.t = "boolean" -> IF x.v THEN <<"t","r","u","e">> ELSE <<"f","a","l","s","e">>
    [] x.t = "null" -> <<"n","u","l","l">>
    [] x.t = "array" -> JoinFrom(x.v, 1)
    [] x.t = "object" ->
         <<"[","o","b","j","e","c","t"," ","O","b","j","e","c","t","]">>

\* the end of the maximal run of digits that starts at i
DigitRunEnd(s, i) ==
  CHOOSE j \in i..Len(s) :
    /\ \A k \in i..j : IsDigit(s[k])
    /\ (j = Len(s) \/ ~IsDigit(s[j + 1]))

\* the first position after the white space that starts at i
SkipSpaces(s, i) ==
  CHOOSE j \in i..(Len(s) + 1) :
    /\ \A k \in i..(j - 1) : IsSpace(s[k])
    /\ (j = Len(s) + 1 \/ ~IsSpace(s[j]))

\* the starts of the maximal runs of digits of s
DigitRunStarts(s) ==
  {i \in 1..Len(s) : IsDigit(s[i]) /\ (i = 1 \/ ~IsDigit(s[i - 1]))}

\* (?:GB|GiB|G|MB|MiB) at position i of the lower-cased string
UnitAt(low, i) ==
  /\ i <= Len(low)
  /\ \/ low[i] = "g"
     \/ (low[i] = "m" /\ i + 1 <= Len(low) /\ low[i + 1] = "b")
     \/ (low[i] = "m" /\ i + 2 <= Len(low) /\ low[i + 1] = "i" /\ low[i + 2] = "b")

\* group 1 of the first match of /(\d+)\s*(?:GB|GiB|G|MB|MiB)/i, or NullMatch
BasicMatch(s) ==
  LET low == toLowerCase(s)
      ok == {i \in DigitRunStarts(s) :
               UnitAt(low, SkipSpaces(s, DigitRunEnd(s, i) + 1))}
  IN  IF ok = {} THEN NullMatch
      ELSE LET i == CHOOSE x \in ok : \A y \in ok : x <= y
           IN  SubSeq(s, i, DigitRunEnd(s, i))

\* group 1 of the first match of /(\d+)/, or NullMatch
NumberMatch(s) ==
  LET st == DigitRunStarts(s)
  IN  IF st = {} THEN NullMatch
      ELSE LET i == CHOOSE x \in st : \A y \in st : x <= y
           IN  SubSeq(s, i, DigitRunEnd(s, i))

\* group 1 of the first match of /(\d+)\s*gb/i, or NullMatch
DigitsBeforeGb(s) ==
  LET low == toLowerCase(s)
      GbAt(i) == i + 1 <= Len(low) /\ low[i] = "g" /\ low[i + 1] = "b"
      ok == {i \in DigitRunStarts(s) : GbAt(SkipSpaces(s, DigitRunEnd(s, i) + 1))}
  IN  IF ok = {} THEN NullMatch
      ELSE LET i == CHOOSE x \in ok : \A y \in ok : x <= y
           IN  SubSeq(s, i, DigitRunEnd(s, i))

\* the digit of the first match of /prefix\s*(\d)/i, or NoMatch
FirstDigitAfter(s, prefix) ==
  LET low == toLowerCase(s)
      n == Len(prefix)
      ok == {i \in 1..(Len(low) - n + 1) :
               /\ SubSeq(low, i, i + n - 1) = prefix
               /\ SkipSpaces(low, i + n) <= Len(low)
               /\ IsDigit(low[SkipSpaces(low, i + n)])}
  IN  IF ok = {} THEN NoMatch
      ELSE LET i == CHOOSE x \in ok : \A y \in ok : x <= y
           IN  DigitValue(low[SkipSpaces(low, i + n)])

(***************************************************************************)
(* Catalog normalizer (gpuData.js): memory extraction                      *)
(***************************************************************************)
memoryFields ==
  <<"Memory Size (GB)", "Memory Size", "Memory (GB)", "Memory", "VRAM",
    "Video RAM", "Graphics Memory", "Video Memory", "VRAM Size", "Memory.Size">>

\* The loop of extractMemorySize breaks on the field: its value is a number,
\* or a string one of the patterns matches.  The range, slash and comma
\* patterns all end in the basic pattern, so their branches are reached only
\* when basicMatch is null, and then they are null as well; what is left is
\* the basic pattern and the first number.
FieldBreaks(gpu, field) ==
  /\ HasProp(gpu, field)
  /\ \/ gpu.v[field].t = "number"
     \/ gpu.v[field].t = "string" /\ NumberMatch(gpu.v[field].v) # NullMatch

\* parseInt of the basic match, else of the first number: hundredths of a GB
ParsedMemSize(basicMatch, numberMatch) ==
  IF basicMatch # NullMatch THEN parseInt(basicMatch) * 100
  ELSE parseInt(numberMatch) * 100

\* the value memSize is set to (hundredths of a GB) when the loop breaks on
\* the field
FieldMemSize(gpu, field) ==
  IF gpu.v[field].t = "number" THEN gpu.v[field].v
  ELSE ParsedMemSize(BasicMatch(gpu.v[field].v), NumberMatch(gpu.v[field].v))

\* the first field the loop of extractMemorySize breaks on, 0 if none
BreakingField(gpu) ==
  LET First(hit) ==
        IF hit = {} THEN 0 ELSE CHOOSE i \in hit : \A j \in hit : i <= j
  IN  First({i \in 1..Len(memoryFields) : FieldBreaks(gpu, memoryFields[i])})

\* extractMemorySize(gpu).memSize as the fraction num / den of a hundredth of
\* a GB: a size above 100 is taken for MB and divided by 1024
extractMemorySize(gpu) ==
  LET SizeAt(i) == IF i = 0 THEN 0 ELSE FieldMemSize(gpu, memoryFields[i])
      Scaled(memSize) ==
        IF memSize > 10000 THEN [num |-> memSize, den |-> 1024]
        ELSE [num |-> memSize, den |-> 1]
  IN  Scaled(SizeAt(BreakingField(gpu)))

\* Helper function to infer memory size from GPU model name; modelName is a
\* string here, the callers handle the other types.  Hundredths of a GB.
inferMemorySizeFromModelName(modelName) ==
  LET model == toLowerCase(modelName)
      directMemoryMatch == DigitsBeforeGb(model)
  IN  IF Len(modelName) = 0 THEN 0
      ELSE IF directMemoryMatch # NullMatch THEN parseInt(directMemoryMatch) * 100
      ELSE
      LET blk1 == (
            IF includes(model, <<"4","0","9","0">>) THEN 2400
            ELSE
            IF includes(model, <<"4","0","8","0">>) THEN 1600
            ELSE
            IF includes(model, <<"4","0","7","0"," ","t","i">>) THEN 1200
            ELSE
            IF includes(model, <<"4","0","7","0">>) THEN 1200
            ELSE
            IF includes(model, <<"4","0","6","0"," ","t","i">>) THEN 800
            ELSE
            IF includes(model, <<"4","0","6","0">>) THEN 800
            ELSE
            IF includes(model, <<"3","0","9","0"," ","t","i">>) \/ includes(model, <<"3","0","9","0">>) THEN 2400
            ELSE
            IF includes(model, <<"3","0","8","0"," ","t","i">>) THEN 1200
            ELSE
            IF includes(model, <<"3","0","8","0"," ","1","2","g","b">>) THEN 1200
            ELSE
            IF includes(model, <<"3","0","8","0">>) THEN 1000
            ELSE
            IF includes(model, <<"3","0","7","0"," ","t","i">>) THEN 800
            ELSE
            IF includes(model, <<"3","0","7","0">>) THEN 800
            ELSE
            IF includes(model, <<"3","0","6","0"," ","t","i">>) THEN 800
            ELSE
            IF includes(model, <<"3","0","6","0">>) THEN 1200
            ELSE
            IF includes(model, <<"2","0","8","0"," ","t","i">>) THEN 1100
            ELSE
            IF includes(model, <<"2","0","8","0"," ","s","u","p","e","r">>) THEN 800
            ELSE
            IF includes(model, <<"2","0","8","0">>) THEN 800
            ELSE
            IF includes(model, <<"2","0","7","0"," ","s","u","p","e","r">>) THEN 800
            ELSE
            IF includes(model, <<"2","0","7","0">>) THEN 800
            ELSE
            IF includes(model, <<"2","0","6","0"," ","s","u","p","e","r">>) THEN 800
            ELSE
            IF includes(model, <<"2","0","6","0">>) THEN 600
            ELSE
            NoReturn
        )
      IN  IF (includes(model, <<"r","t","x">>)) /\ blk1 # NoReturn THEN blk1
      ELSE
      LET blk2 == (
            IF includes(model, <<"1","0","8","0"," ","t","i">>) THEN 1100
            ELSE
            IF includes(model, <<"1","0","8","0">>) THEN 800
            ELSE
            IF includes(model, <<"1","0","7","0"," ","t","i">>) THEN 800
            ELSE
            IF includes(model, <<"1","0","7","0">>) THEN 800
            ELSE
            IF includes(model, <<"1","0","6","0"," ","6","g","b">>) THEN 600
            ELSE
            IF includes(model, <<"1","0","6","0">>) THEN 300
            ELSE
            IF includes(model, <<"1","0","5","0"," ","t","i">>) THEN 400
            ELSE
            IF includes(model, <<"1","0","5","0">>) THEN 200
            ELSE
            IF includes(model, <<"1","6","5","0">>) THEN 400
            ELSE
            IF includes(model, <<"1","6","6","0"," ","t","i">>) \/ includes(model, <<"1","6","6","0"," ","s","u","p","e","r">>) THEN 600
            ELSE
            IF includes(model, <<"1","6","6","0">>) THEN 600
            ELSE
            NoReturn
        )
      IN  IF (includes(model, <<"g","t","x">>)) /\ blk2 # NoReturn THEN blk2
      ELSE
      LET blk3 == (
            IF includes(model, <<"r","x"," ","7","9","0","0"," ","x","t","x">>) THEN 2400
            ELSE
            IF includes(model, <<"r","x"," ","7","9","0","0"," ","x","t">>) THEN 2000
            ELSE
            IF includes(model, <<"r","x"," ","7","8","0","0"," ","x","t">>) THEN 1600
            ELSE
            IF includes(model, <<"r","x"," ","7","7","0","0"," ","x","t">>) THEN 1200
            ELSE
            IF includes(model, <<"r","x"," ","6","9","5","0"," ","x","t">>) THEN 1600
            ELSE
            IF includes(model, <<"r","x"," ","6","9","0","0"," ","x","t">>) THEN 1600
            ELSE
            IF includes(model, <<"r","x"," ","6","8","0","0"," ","x","t">>) THEN 1600
            ELSE
            IF includes(model, <<"r","x"," ","6","8","0","0">>) THEN 1600
            ELSE
            IF includes(model, <<"r","x"," ","6","7","5","0"," ","x","t">>) THEN 1200
            ELSE
            IF includes(model, <<"r","x"," ","6","7","0","0"," ","x","t">>) THEN 1200
            ELSE
            IF includes(model, <<"r","x"," ","6","6","5","0"," ","x","t">>) THEN 800
            ELSE
            IF includes(model, <<"r","x"," ","6","6","0","0"," ","x","t">>) THEN 800
            ELSE
            IF includes(model, <<"r","x"," ","6","6","0","0">>) THEN 800
            ELSE
            IF includes(model, <<"r","x"," ","5","7","0","0"," ","x","t">>) THEN 800
            ELSE
            IF includes(model, <<"r","x"," ","5","7","0","0">>) THEN 800
            ELSE
            IF includes(model, <<"r","x"," ","5","6","0","0"," ","x","t">>) THEN 600
            ELSE
            IF includes(model, <<"r","x"," ","5","5","0","0"," ","x","t">>) THEN 800
            ELSE
            NoReturn
        )
      IN  IF (includes(model, <<"r","a","d","e","o","n">>) \/ includes(model, <<"r","x">>)) /\ blk3 # NoReturn THEN blk3
      ELSE
      LET blk4 == (
            IF includes(model, <<"r","t","x"," ","8","0","0","0">>) THEN 4800
            ELSE
            IF includes(model, <<"r","t","x"," ","6","0","0","0">>) THEN 2400
            ELSE
            IF includes(model, <<"r","t","x"," ","5","0","0","0">>) THEN 1600
            ELSE
            IF includes(model, <<"r","t","x"," ","4","0","0","0">>) THEN 800
            ELSE
            IF includes(model, <<"p","6","0","0","0">>) THEN 2400
            ELSE
            IF includes(model, <<"p","5","0","0","0">>) THEN 1600
            ELSE
            IF includes(model, <<"p","4","0","0","0">>) THEN 800
            ELSE
            NoReturn
        )
      IN  IF (includes(model, <<"q","u","a","d","r","o">>)) /\ blk4 # NoReturn THEN blk4
      ELSE
      LET blk5 == (
            IF includes(model, <<"a","1","0","0">>)
            THEN (
              IF includes(model, <<"8","0","g","b">>) THEN 8000
              ELSE
              4000
            )
            ELSE
            IF includes(model, <<"v","1","0","0">>)
            THEN (
              IF includes(model, <<"3","2","g","b">>) THEN 3200
              ELSE
              1600
            )
            ELSE
            IF includes(model, <<"a","4","0">>) \/ includes(model, <<"a","4","0","g">>) THEN 4800
            ELSE
            IF includes(model, <<"a","3","0">>) \/ includes(model, <<"a","3","0","g">>) THEN 2400
            ELSE
            IF includes(model, <<"a","1","0">>) \/ includes(model, <<"a","1","0","g">>) THEN 2400
            ELSE
            NoReturn
        )
      IN  IF (includes(model, <<"t","e","s","l","a">>) \/ includes(model, <<"a","1","0","0">>) \/ includes(model, <<"v","1","0","0">>)) /\ blk5 # NoReturn THEN blk5
      ELSE
      LET blk6 == (
            IF includes(model, <<"m","1"," ","u","l","t","r","a">>)
            THEN (
              IF includes(model, <<"1","2","8">>) THEN 12800
              ELSE
              6400
            )
            ELSE
            IF includes(model, <<"m","1"," ","m","a","x">>)
            THEN (
              IF includes(model, <<"6","4">>) THEN 6400
              ELSE
              3200
            )
            ELSE
            IF includes(model, <<"m","1"," ","p","r","o">>)
            THEN (
              IF includes(model, <<"3","2">>) THEN 3200
              ELSE
              1600
            )
            ELSE
            IF includes(model, <<"m","1">>)
            THEN (
              IF includes(model, <<"1","6">>) THEN 1600
              ELSE
              800
            )
            ELSE
            IF includes(model, <<"m","2"," ","u","l","t","r","a">>)
            THEN (
              IF includes(model, <<"1","9","2">>) THEN 19200
              ELSE
              IF includes(model, <<"1","2","8">>) THEN 12800
              ELSE
              6400
            )
            ELSE
            IF includes(model, <<"m","2"," ","m","a","x">>)
            THEN (
              IF includes(model, <<"9","6">>) THEN 9600
              ELSE
              IF includes(model, <<"6","4">>) THEN 6400
              ELSE
              3200
            )
            ELSE
            IF includes(model, <<"m","2"," ","p","r","o">>)
            THEN (
              IF includes(model, <<"3","2">>) THEN 3200
              ELSE
              1600
            )
            ELSE
            IF includes(model, <<"m","2">>)
            THEN (
              IF includes(model, <<"2","4">>) THEN 2400
              ELSE
              IF includes(model, <<"1","6">>) THEN 1600
              ELSE
              800
            )
            ELSE
            IF includes(model, <<"m","3"," ","u","l","t","r","a">>)
            THEN (
              IF includes(model, <<"1","9","2">>) THEN 19200
              ELSE
              12800
            )
            ELSE
            IF includes(model, <<"m","3"," ","m","a","x">>)
            THEN (
              IF includes(model, <<"1","2","8">>) THEN 12800
              ELSE
              IF includes(model, <<"6","4">>) THEN 6400
              ELSE
              3600
            )
            ELSE
            IF includes(model, <<"m","3"," ","p","r","o">>)
            THEN (
              IF includes(model, <<"3","6">>) THEN 3600
              ELSE
              1800
            )
            ELSE
            IF includes(model, <<"m","3">>)
            THEN (
              IF includes(model, <<"2","4">>) THEN 2400
              ELSE
              IF includes(model, <<"1","6">>) THEN 1600
              ELSE
              800
            )
            ELSE
            NoReturn
        )
      IN  IF (includes(model, <<"a","p","p","l","e">>)) /\ blk6 # NoReturn THEN blk6
      ELSE
      0

\* Helper function to determine VRAM based on GPU model name and generation;
\* the argument is the model name already in lower case.  Hundredths of a GB.
getVramFromGpuModel(name) ==
  LET modelName == toLowerCase(name)
  IN  IF Len(name) = 0 THEN 400
      ELSE
      IF includes(modelName, <<"r","t","x">>)
      THEN (
        IF includes(modelName, <<"5","0","9","0">>) THEN 3200
        ELSE
        IF includes(modelName, <<"5","0","8","0">>) THEN 2400
        ELSE
        IF includes(modelName, <<"5","0","7","0">>) THEN 1600
        ELSE
        IF includes(modelName, <<"5","0","6","0">>) THEN 1200
        ELSE
        IF includes(modelName, <<"5","0">>) THEN 1600
        ELSE
        IF includes(modelName, <<"4","0","9","0">>) THEN 2400
        ELSE
        IF includes(modelName, <<"4","0","8","0">>) THEN 1600
        ELSE
        IF includes(modelName, <<"4","0","7","0"," ","t","i">>) THEN 1200
        ELSE
        IF includes(modelName, <<"4","0","7","0">>) THEN 1200
        ELSE
        IF includes(modelName, <<"4","0","6","0"," ","t","i">>) THEN 800
        ELSE
        IF includes(modelName, <<"4","0","6","0">>) THEN 800
        ELSE
        IF includes(modelName, <<"4","0">>) THEN 1200
        ELSE
        IF includes(modelName, <<"3","0","9","0"," ","t","i">>) \/ includes(modelName, <<"3","0","9","0">>) THEN 2400
        ELSE
        IF includes(modelName, <<"3","0","8","0"," ","t","i">>) THEN 1200
        ELSE
        IF includes(modelName, <<"3","0","8","0"," ","1","2","g","b">>) THEN 1200
        ELSE
        IF includes(modelName, <<"3","0","8","0">>) THEN 1000
        ELSE
        IF includes(modelName, <<"3","0","7","0"," ","t","i">>) THEN 800
        ELSE
        IF includes(modelName, <<"3","0","7","0">>) THEN 800
        ELSE
        IF includes(modelName, <<"3","0","6","0"," ","t","i">>) THEN 800
        ELSE
        IF includes(modelName, <<"3","0","6","0">>) THEN 1200
        ELSE
        IF includes(modelName, <<"3","0">>) THEN 800
        ELSE
        IF includes(modelName, <<"2","0","8","0"," ","t","i">>) THEN 1100
        ELSE
        IF includes(modelName, <<"2","0","8","0"," ","s","u","p","e","r">>) THEN 800
        ELSE
        IF includes(modelName, <<"2","0","8","0">>) THEN 800
        ELSE
        IF includes(modelName, <<"2","0","7","0"," ","s","u","p","e","r">>) THEN 800
        ELSE
        IF includes(modelName, <<"2","0","7","0">>) THEN 800
        ELSE
        IF includes(modelName, <<"2","0","6","0"," ","s","u","p","e","r">>) THEN 800
        ELSE
        IF includes(modelName, <<"2","0","6","0">>) THEN 600
        ELSE
        IF includes(modelName, <<"2","0">>) THEN 600
        ELSE
        IF FirstDigitAfter(modelName, <<"r","t","x">>) # NoMatch
        THEN (LET gen == FirstDigitAfter(modelName, <<"r","t","x">>) IN
          IF gen >= 5 THEN 2400
          ELSE
          IF gen >= 4 THEN 1600
          ELSE
          IF gen >= 3 THEN 1000
          ELSE
          800
        )
        ELSE
        1200
      )
      ELSE
      IF includes(modelName, <<"g","t","x">>)
      THEN (
        IF includes(modelName, <<"1","0","8","0"," ","t","i">>) THEN 1100
        ELSE
        IF includes(modelName, <<"1","0","8","0">>) THEN 800
        ELSE
        IF includes(modelName, <<"1","0","7","0"," ","t","i">>) THEN 800
        ELSE
        IF includes(modelName, <<"1","0","7","0">>) THEN 800
        ELSE
        IF includes(modelName, <<"1","0","6","0"," ","6","g","b">>) THEN 600
        ELSE
        IF includes(modelName, <<"1","0","6","0">>) THEN 300
        ELSE
        IF includes(modelName, <<"1","6","5","0">>) THEN 400
        ELSE
        IF includes(modelName, <<"1","6","6","0"," ","t","i">>) \/ includes(modelName, <<"1","6","6","0"," ","s","u","p","e","r">>) THEN 600
        ELSE
        IF includes(modelName, <<"1","6","6","0">>) THEN 600
        ELSE
        400
      )
      ELSE
      IF includes(modelName, <<"r","a","d","e","o","n">>) \/ includes(modelName, <<"r","x">>)
      THEN (
        IF includes(modelName, <<"r","x"," ","8","9","0","0">>) THEN 3200
        ELSE
        IF includes(modelName, <<"r","x"," ","8","8","0","0">>) THEN 2400
        ELSE
        IF includes(modelName, <<"r","x"," ","8","7","0","0">>) THEN 1600
        ELSE
        IF includes(modelName, <<"r","x"," ","8","0">>) THEN 2400
        ELSE
        IF includes(modelName, <<"r","x"," ","7","9","0","0"," ","x","t","x">>) THEN 2400
        ELSE
        IF includes(modelName, <<"r","x"," ","7","9","0","0"," ","x","t">>) THEN 2000
        ELSE
        IF includes(modelName, <<"r","x"," ","7","8","0","0"," ","x","t">>) THEN 1600
        ELSE
        IF includes(modelName, <<"r","x"," ","7","7","0","0"," ","x","t">>) THEN 1200
        ELSE
        IF includes(modelName, <<"r","x"," ","7","0">>) THEN 1600
        ELSE
        IF includes(modelName, <<"r","x"," ","6","9","5","0"," ","x","t">>) THEN 1600
        ELSE
        IF includes(modelName, <<"r","x"," ","6","9","0","0"," ","x","t">>) THEN 1600
        ELSE
        IF includes(modelName, <<"r","x"," ","6","8","0","0"," ","x","t">>) THEN 1600
        ELSE
        IF includes(modelName, <<"r","x"," ","6","8","0","0">>) THEN 1600
        ELSE
        IF includes(modelName, <<"r","x"," ","6","7","5","0"," ","x","t">>) THEN 1200
        ELSE
        IF includes(modelName, <<"r","x"," ","6","7","0","0"," ","x","t">>) THEN 1200
        ELSE
        IF includes(modelName, <<"r","x"," ","6","6","5","0"," ","x","t">>) THEN 800
        ELSE
        IF includes(modelName, <<"r","x"," ","6","6","0","0"," ","x","t">>) THEN 800
        ELSE
        IF includes(modelName, <<"r","x"," ","6","6","0","0">>) THEN 800
        ELSE
        IF includes(modelName, <<"r","x"," ","6","0">>) THEN 800
        ELSE
        IF includes(modelName, <<"r","x"," ","5","7","0","0"," ","x","t">>) THEN 800
        ELSE
        IF includes(modelName, <<"r","x"," ","5","7","0","0">>) THEN 800
        ELSE
        IF includes(modelName, <<"r","x"," ","5","6","0","0"," ","x","t">>) THEN 600
        ELSE
        IF includes(modelName, <<"r","x"," ","5","5","0","0"," ","x","t">>) THEN 800
        ELSE
        IF includes(modelName, <<"r","x"," ","5","0">>) THEN 800
        ELSE
        IF FirstDigitAfter(modelName, <<"r","x">>) # NoMatch
        THEN (LET gen == FirstDigitAfter(modelName, <<"r","x">>) IN
          IF gen >= 8 THEN 2400
          ELSE
          IF gen >= 7 THEN 1600
          ELSE
          IF gen >= 6 THEN 1200
          ELSE
          IF gen >= 5 THEN 800
          ELSE
          800
        )
        ELSE
        800
      )
      ELSE
      IF includes(modelName, <<"a","1","0","0">>) THEN 8000
      ELSE
      IF includes(modelName, <<"h","1","0","0">>) THEN 8000
      ELSE
      IF includes(modelName, <<"a","6","0","0","0">>) THEN 4800
      ELSE
      IF includes(modelName, <<"a","5","0","0","0">>) THEN 2400
      ELSE
      IF includes(modelName, <<"a","4","0","0","0">>) THEN 1600
      ELSE
      IF includes(modelName, <<"q","u","a","d","r","o">>) \/ includes(modelName, <<"r","t","x"," ","a">>) THEN 1600
      ELSE
      IF includes(modelName, <<"t","e","s","l","a">>) \/ includes(modelName, <<"v","1","0","0">>) THEN 3200
      ELSE
      IF includes(modelName, <<"i","n","t","e","l">>) /\ includes(modelName, <<"m","a","x">>)
      THEN (
        IF includes(modelName, <<"1","5","5","0">>) THEN 12800
        ELSE
        IF includes(modelName, <<"1","1","0","0">>) THEN 4800
        ELSE
        4800
      )
      ELSE
      IF includes(modelName, <<"n","v","i","d","i","a">>) THEN 800
      ELSE
      IF includes(modelName, <<"a","m","d">>) THEN 800
      ELSE
      IF includes(modelName, <<"i","n","t","e","l"," ","a","r","c">>) THEN 800
      ELSE
      600

(***************************************************************************)
(* Catalog normalizer (gpuData.js): device records                         *)
(***************************************************************************)
\* Math.round(memSize * 10) / 10 for memSize = num / den hundredths of a GB
RoundToTenth(x) == 10 * ((2 * x.num + 10 * x.den) \div (20 * x.den))

\* String.prototype.trim
trim(s) ==
  LET keep == {i \in 1..Len(s) : ~IsSpace(s[i])}
  IN  IF keep = {} THEN <<>>
      ELSE SubSeq(s, CHOOSE i \in keep : \A j \in keep : i <= j,
                     CHOOSE i \in keep : \A j \in keep : i >= j)

RECURSIVE PatternAtoms(_)
\* The atoms of the source text of a regular expression made of literal
\* characters, "." and character classes without ranges or negation, which
\* is what the text of a name, a number or an object gives.  An atom is the
\* set of characters it matches; "." matches any character of a model name.
PatternAtoms(p) ==
  IF Len(p) = 0 THEN <<>>
  ELSE IF p[1] = "." THEN <<[any |-> TRUE, chars |-> {}]>> \o PatternAtoms(Tail(p))
  ELSE IF p[1] = "[" /\ \E k \in 2..Len(p) : p[k] = "]"
  THEN LET close == CHOOSE k \in 2..Len(p) :
                      p[k] = "]" /\ \A m \in 2..(k - 1) : p[m] # "]"
       IN  <<[any |-> FALSE, chars |-> {p[m] : m \in 2..(close - 1)}]>>
             \o PatternAtoms(SubSeq(p, close + 1, Len(p)))
  ELSE <<[any |-> FALSE, chars |-> {p[1]}]>> \o PatternAtoms(Tail(p))

\* the model name without the match of the atoms followed by white space at
\* its start
StripAtoms(modelName, atoms) ==
  IF /\ Len(modelName) > Len(atoms)
     /\ \A i \in 1..Len(atoms) : atoms[i].any \/ modelName[i] \in atoms[i].chars
     /\ IsSpace(modelName[Len(atoms) + 1])
  THEN SubSeq(modelName, SkipSpaces(modelName, Len(atoms) + 1), Len(modelName))
  ELSE modelName

\* modelName.replace(new RegExp(`^${vendor}\\s+`), ''), vendor being the text
\* the template literal makes of gpu.Vendor
StripVendor(modelName, vendor) == StripAtoms(modelName, PatternAtoms(vendor))

RECURSIVE StripParens(_)
\* modelName.replace(/\s+\(.*?\)/g, '')
StripParens(s) ==
  LET starts == {i \in 1..Len(s) :
                   /\ IsSpace(s[i])
                   /\ SkipSpaces(s, i) <= Len(s)
                   /\ s[SkipSpaces(s, i)] = "("
                   /\ \E k \in (SkipSpaces(s, i) + 1)..Len(s) : s[k] = ")"}
  IN  IF starts = {} THEN s
      ELSE LET i == CHOOSE x \in starts : \A y \in starts : x <= y
               open == SkipSpaces(s, i)
               close == CHOOSE k \in (open + 1)..Len(s) :
                          s[k] = ")" /\ \A m \in (open + 1)..(k - 1) : s[m] # ")"
           IN  SubSeq(s, 1, i - 1) \o StripParens(SubSeq(s, close + 1, Len(s)))

\* the record is skipped by the first two checks of the forEach callback
SkippedEntry(e) ==
  \/ e.value.t # "object"
  \/ ~HasProp(e.value, "Model")
  \/ ~Truthy(e.value.v["Model"])

\* the forEach callback throws: a Model that is not a string reaches
\* (gpu.Model || "").toLowerCase() when no memory field gives a size
EntryThrows(e) ==
  /\ ~SkippedEntry(e)
  /\ e.value.v["Model"].t # "string"
  /\ extractMemorySize(e.value).num <= 0

\* step 2 and step 3 of the forEach callback for a Model that is a string
InferredMemSize(modelName, inferredSize) ==
  IF inferredSize > 0 THEN inferredSize
  ELSE getVramFromGpuModel(toLowerCase(modelName))

\* inferMemorySizeFromModelName(gpu.Model) is 0 for a Model that is not a
\* string; step 3 then throws (EntryThrows)
FallbackMemSize(model) ==
  IF model.t = "string"
  THEN InferredMemSize(model.v, inferMemorySizeFromModelName(model.v))
  ELSE 0

ExtractedMemSize(gpu, extractionResult) ==
  IF extractionResult.num > 0 THEN RoundToTenth(extractionResult)
  ELSE FallbackMemSize(gpu.v["Model"])

\* The memory size of one raw record the callback does not throw on:
\* hundredths of a GB, rounded to a tenth
MemSizeOf(gpu) == ExtractedMemSize(gpu, extractMemorySize(gpu))

\* let vendor = gpu.Vendor || ""
VendorString(gpu) ==
  IF HasProp(gpu, "Vendor") /\ Truthy(gpu.v["Vendor"])
  THEN gpu.v["Vendor"] ELSE JStr(<<>>)

\* the vendor name removed from the start of a Model that is a string
WithoutVendor(model, vendor) ==
  IF Truthy(vendor) /\ includes(model, StringOf(vendor))
  THEN StripVendor(model, StringOf(vendor)) ELSE model

\* modelName after the cleaning: a Model that is not a string is left as it is
CleanModelName(gpu) ==
  IF gpu.v["Model"].t = "string"
  THEN JStr(trim(StripParens(WithoutVendor(gpu.v["Model"].v, VendorString(gpu)))))
  ELSE gpu.v["Model"]

gpuEntry(id, gpu, memSize, modelName) ==
  [id |-> id \o <<"_">> \o StringOf(modelName) \o <<"_">> \o NumToChars(memSize),
   name |-> modelName,
   vendor |-> VendorString(gpu),
   vram |-> memSize,
   launchDate |-> IF HasProp(gpu, "Launch") /\ Truthy(gpu.v["Launch"])
                  THEN gpu.v["Launch"] ELSE JNull]

\* the gpuEntry built from one raw record
GpuEntry(e) == gpuEntry(e.key, e.value, MemSizeOf(e.value), CleanModelName(e.value))

\* the record adds a device to gpuList: if (!modelName) return
AddsEntry(e) ==
  /\ ~SkippedEntry(e)
  /\ ~EntryThrows(e)
  /\ Truthy(CleanModelName(e.value))

(***************************************************************************)
(* String.prototype.localeCompare, for names made of spaces, punctuation,  *)
(* digits and unaccented letters: white space sorts before punctuation,    *)
(* punctuation before digits, digits before letters, letters in            *)
(* alphabetical order whatever their case; names equal up to case are      *)
(* ordered at their first difference, lower case first.                    *)
(***************************************************************************)
PunctChars ==
  <<"_", "-", ",", ";", ":", "!", "?", ".", "'", "(", ")", "[", "]", "{", "}",
    "@", "*", "/", "&", "#", "%", "+", "<", "=", ">", "|", "~", "$">>

CharRank(c) ==
  LET l == LowerChar(c)
  IN  IF IsSpace(c) THEN 0
      ELSE IF \E i \in 1..Len(PunctChars) : PunctChars[i] = c
      THEN CHOOSE i \in 1..Len(PunctChars) : PunctChars[i] = c
      ELSE IF IsDigit(c) THEN 40 + DigitValue(c)
      ELSE IF \E i \in 1..26 : LowerChars[i] = l
      THEN 50 + (CHOOSE i \in 1..26 : LowerChars[i] = l)
      ELSE 100

\* sign of the comparison of the sequences of ranks Rank(a[i]) and Rank(b[i])
CmpByRank(a, b, Rank(_)) ==
  LET n == Min(Len(a), Len(b))
      diff == {i \in 1..n : Rank(a[i]) # Rank(b[i])}
  IN  IF diff # {}
      THEN LET i == CHOOSE x \in diff : \A y \in diff : x <= y
           IN  IF Rank(a[i]) < Rank(b[i]) THEN -1 ELSE 1
      ELSE IF Len(a) < Len(b) THEN -1
      ELSE IF Len(a) > Len(b) THEN 1
      ELSE 0

CaseRank(c) == IF LowerChar(c) = c THEN 0 ELSE 1

localeCompare(a, b) ==
  IF CmpByRank(a, b, CharRank) # 0 THEN CmpByRank(a, b, CharRank)
  ELSE CmpByRank(a, b, CaseRank)

\* the comparator of the final sort of processGpuData throws a TypeError:
\* a.name.localeCompare is not a function when a.name is not a string
CatalogOrderThrows(a, b) == b.vram = a.vram /\ a.name.t # "string"

\* comparator of the final sort of processGpuData; localeCompare takes the
\* text of b.name
CmpCatalogOrder(a, b) ==
  IF b.vram # a.vram THEN (IF b.vram < a.vram THEN -1 ELSE 1)
  ELSE localeCompare(a.name.v, StringOf(b.name))

\* gpuList.sort(...) as V8 sorts an array of fewer than 64 elements: the run
\* the array starts with is counted, reversed when it descends, and the other
\* elements are inserted into it one by one at the place a binary search
\* finds.  The comparisons made decide whether the comparator throws; the
\* result is the sorted list, or threw when a comparison threw.
Reverse(list) == [i \in 1..Len(list) |-> list[Len(list) + 1 - i]]

Sorted(list) == [list |-> list, threw |-> FALSE]
SortThrew == [list |-> <<>>, threw |-> TRUE]

RECURSIVE RunFrom(_, _, _)
\* the length of the run, idx being the next element to compare with the
\* one before it; 0 when the comparator throws
RunFrom(list, idx, isDescending) ==
  IF idx > Len(list) THEN idx - 1
  ELSE IF CatalogOrderThrows(list[idx], list[idx - 1]) THEN 0
  ELSE IF isDescending = (CmpCatalogOrder(list[idx], list[idx - 1]) < 0)
  THEN RunFrom(list, idx + 1, isDescending)
  ELSE idx - 1

\* CountAndMakeRun for a list of two elements or more: the list with its
\* first run in ascending order, and the length of the run
MadeRun(list, isDescending, runLength) ==
  IF runLength = 0 THEN [list |-> list, len |-> 0]
  ELSE IF isDescending
  THEN [list |-> Reverse(SubSeq(list, 1, runLength))
                   \o SubSeq(list, runLength + 1, Len(list)),
        len |-> runLength]
  ELSE [list |-> list, len |-> runLength]

CountAndMakeRun(list) ==
  IF CatalogOrderThrows(list[2], list[1]) THEN [list |-> list, len |-> 0]
  ELSE MadeRun(list, CmpCatalogOrder(list[2], list[1]) < 0,
               RunFrom(list, 3, CmpCatalogOrder(list[2], list[1]) < 0))

RECURSIVE SearchFrom(_, _, _, _)
\* the binary search of BinaryInsertionSort over list[left + 1 .. right]: the
\* number of elements the pivot goes after, -1 when the comparator throws
SearchFrom(list, pivot, left, right) ==
  IF left >= right THEN left
  ELSE IF CatalogOrderThrows(pivot, list[left + (right - left) \div 2 + 1]) THEN -1
  ELSE IF CmpCatalogOrder(pivot, list[left + (right - left) \div 2 + 1]) < 0
  THEN SearchFrom(list, pivot, left, left + (right - left) \div 2)
  ELSE SearchFrom(list, pivot, left + (right - left) \div 2 + 1, right)

\* the list with its element at start + 1 moved to the place after left
Inserted(list, start, left) ==
  SubSeq(list, 1, left) \o <<list[start + 1]>> \o SubSeq(list, left + 1, start)
    \o SubSeq(list, start + 2, Len(list))

RECURSIVE InsertFrom(_, _)
InsertAt(list, start, left) ==
  IF left < 0 THEN SortThrew
  ELSE InsertFrom(Inserted(list, start, left), start + 1)

\* BinaryInsertionSort: list[1 .. start] is sorted
InsertFrom(list, start) ==
  IF start >= Len(list) THEN Sorted(list)
  ELSE InsertAt(list, start, SearchFrom(list, list[start + 1], 0, start))

SortRun(run) ==
  IF run.len = 0 THEN SortThrew ELSE InsertFrom(run.list, run.len)

SortCatalog(list) ==
  IF Len(list) < 2 THEN Sorted(list) ELSE SortRun(CountAndMakeRun(list))

\* gpuList after the forEach over the first i entries of the data
RECURSIVE PushedEntries(_, _)
PushedEntries(data, i) ==
  IF i = 0 THEN <<>>
  ELSE IF AddsEntry(data[i])
  THEN Append(PushedEntries(data, i - 1), GpuEntry(data[i]))
  ELSE PushedEntries(data, i - 1)

\* The body of processGpuData after a successful fetch: [threw, list].
\* threw: an exception reached the outer catch, from the forEach callback or
\* from the comparator of the final sort.
NormalizeCatalog(data) ==
  IF \E i \in 1..Len(data) : EntryThrows(data[i]) THEN SortThrew
  ELSE SortCatalog(PushedEntries(data, Len(data)))

\* addIsUnifiedProperty(gpu): the device record with its isUnified property
\* set from the name and the vendor.  No code calls it.
addIsUnifiedProperty(gpu) ==
  IF LowerCaseThrows(gpu) THEN TypeError ELSE
  LET name == toLowerCase(NameOf(gpu))
      vendor == toLowerCase(VendorOf(gpu))
      unified ==
        \/ vendor = <<"a","p","p","l","e">>
        \/ includes(name, <<"a","p","p","l","e"," ","m">>)
        \/ /\ includes(name, <<"r","y","z","e","n">>)
           /\ \/ includes(name, <<"u">>)
              \/ includes(name, <<"h">>)
              \/ includes(name, <<"h","s">>)
        \/ /\ vendor = <<"i","n","t","e","l">> \/ includes(name, <<"i","n","t","e","l">>)
           /\ \/ includes(name, <<"i","r","i","s">>)
              \/ includes(name, <<"u","h","d">>)
              \/ includes(name, <<"u","l","t","r","a">>)
        \/ includes(name, <<"s","n","a","p","d","r","a","g","o","n">>)
  IN  ("isUnified" :> unified) @@ gpu

(***************************************************************************)
(* Inputs of the model                                                     *)
(***************************************************************************)
\* hundredths of a billion parameters: the presets 0.5B, 1B, 3B, 7B, 13B, 70B
\* and 405B, and what the number input, which has no maximum, yields: 0.01,
\* 0.1, 5.48, 3932.16, and 0 for an empty or non-numeric entry
\* (Number(e.target.value) || 0)
ModelParamsValues == {0, 1, 10, 50, 100, 300, 548, 700, 1300, 7000, 40500, 393216}
QuantizationValues == {"FP32", "FP16", "INT8", "INT4", "INT2", "GGUF_Q6_K", "Q9_X"}
\* context presets and typed values; 0 for an empty entry
ContextLengthValues == {0, 1, 512, 2048, 4096, 32768}
BatchSizeValues == {1, 2, 16}

\* Default list of common GPUs (fallback if API fails)
defaultGpuList ==
  <<[name |-> JStr(<<"R","T","X"," ","4","0","9","0">>), vram |-> 2400, isUnified |-> FALSE],
    [name |-> JStr(<<"R","T","X"," ","4","0","8","0">>), vram |-> 1600, isUnified |-> FALSE],
    [name |-> JStr(<<"R","T","X"," ","4","0","7","0"," ","T","i">>), vram |-> 1200, isUnified |-> FALSE],
    [name |-> JStr(<<"R","T","X"," ","3","0","9","0">>), vram |-> 2400, isUnified |-> FALSE],
    [name |-> JStr(<<"R","T","X"," ","3","0","8","0">>), vram |-> 1000, isUnified |-> FALSE],
    [name |-> JStr(<<"R","T","X"," ","3","0","7","0">>), vram |-> 800, isUnified |-> FALSE],
    [name |-> JStr(<<"R","T","X"," ","2","0","8","0"," ","T","i">>), vram |-> 1100, isUnified |-> FALSE],
    [name |-> JStr(<<"R","T","X"," ","2","0","8","0">>), vram |-> 800, isUnified |-> FALSE],
    [name |-> JStr(<<"R","T","X"," ","2","0","7","0">>), vram |-> 800, isUnified |-> FALSE],
    [name |-> JStr(<<"A","1","0","0">>), vram |-> 8000, isUnified |-> FALSE],
    [name |-> JStr(<<"A","6","0","0","0">>), vram |-> 4800, isUnified |-> FALSE],
    [name |-> JStr(<<"A","5","0","0","0">>), vram |-> 2400, isUnified |-> FALSE],
    [name |-> JStr(<<"A","4","0","0","0">>), vram |-> 1600, isUnified |-> FALSE],
    [name |-> JStr(<<"R","a","d","e","o","n"," ","R","X"," ","7","9","0","0"," ","X","T","X">>), vram |-> 2400, isUnified |-> FALSE],
    [name |-> JStr(<<"R","a","d","e","o","n"," ","R","X"," ","6","9","0","0"," ","X","T">>), vram |-> 1600, isUnified |-> FALSE],
    [name |-> JStr(<<"R","a","d","e","o","n"," ","R","X"," ","6","8","0","0"," ","X","T">>), vram |-> 1600, isUnified |-> FALSE],
    [name |-> JStr(<<"A","p","p","l","e"," ","M","1">>), vendor |-> JStr(<<"A","p","p","l","e">>), vram |-> 800, isUnified |-> TRUE],
    [name |-> JStr(<<"A","p","p","l","e"," ","M","1">>), vendor |-> JStr(<<"A","p","p","l","e">>), vram |-> 1600, isUnified |-> TRUE],
    [name |-> JStr(<<"A","p","p","l","e"," ","M","1"," ","P","r","o">>), vendor |-> JStr(<<"A","p","p","l","e">>), vram |-> 1600, isUnified |-> TRUE],
    [name |-> JStr(<<"A","p","p","l","e"," ","M","1"," ","P","r","o">>), vendor |-> JStr(<<"A","p","p","l","e">>), vram |-> 3200, isUnified |-> TRUE],
    [name |-> JStr(<<"A","p","p","l","e"," ","M","1"," ","M","a","x">>), vendor |-> JStr(<<"A","p","p","l","e">>), vram |-> 3200, isUnified |-> TRUE],
    [name |-> JStr(<<"A","p","p","l","e"," ","M","1"," ","M","a","x">>), vendor |-> JStr(<<"A","p","p","l","e">>), vram |-> 6400, isUnified |-> TRUE],
    [name |-> JStr(<<"A","p","p","l","e"," ","M","1"," ","U","l","t","r","a">>), vendor |-> JStr(<<"A","p","p","l","e">>), vram |-> 6400, isUnified |-> TRUE],
    [name |-> JStr(<<"A","p","p","l","e"," ","M","1"," ","U","l","t","r","a">>), vendor |-> JStr(<<"A","p","p","l","e">>), vram |-> 12800, isUnified |-> TRUE],
    [name |-> JStr(<<"A","p","p","l","e"," ","M","2">>), vendor |-> JStr(<<"A","p","p","l","e">>), vram |-> 800, isUnified |-> TRUE],
    [name |-> JStr(<<"A","p","p","l","e"," ","M","2">>), vendor |-> JStr(<<"A","p","p","l","e">>), vram |-> 1600, isUnified |-> TRUE],
    [name |-> JStr(<<"A","p","p","l","e"," ","M","2">>), vendor |-> JStr(<<"A","p","p","l","e">>), vram |-> 2400, isUnified |-> TRUE],
    [name |-> JStr(<<"A","p","p","l","e"," ","M","2"," ","P","r","o">>), vendor |-> JStr(<<"A","p","p","l","e">>), vram |-> 1600, isUnified |-> TRUE],
    [name |-> JStr(<<"A","p","p","l","e"," ","M","2"," ","P","r","o">>), vendor |-> JStr(<<"A","p","p","l","e">>), vram |-> 3200, isUnified |-> TRUE],
    [name |-> JStr(<<"A","p","p","l","e"," ","M","2"," ","M","a","x">>), vendor |-> JStr(<<"A","p","p","l","e">>), vram |-> 3200, isUnified |-> TRUE],
    [name |-> JStr(<<"A","p","p","l","e"," ","M","2"," ","M","a","x">>), vendor |-> JStr(<<"A","p","p","l","e">>), vram |-> 6400, isUnified |-> TRUE],
    [name |-> JStr(<<"A","p","p","l","e"," ","M","2"," ","M","a","x">>), vendor |-> JStr(<<"A","p","p","l","e">>), vram |-> 9600, isUnified |-> TRUE],
    [name |-> JStr(<<"A","p","p","l","e"," ","M","2"," ","U","l","t","r","a">>), vendor |-> JStr(<<"A","p","p","l","e">>), vram |-> 6400, isUnified |-> TRUE],
    [name |-> JStr(<<"A","p","p","l","e"," ","M","2"," ","U","l","t","r","a">>), vendor |-> JStr(<<"A","p","p","l","e">>), vram |-> 12800, isUnified |-> TRUE],
    [name |-> JStr(<<"A","p","p","l","e"," ","M","2"," ","U","l","t","r","a">>), vendor |-> JStr(<<"A","p","p","l","e">>), vram |-> 19200, isUnified |-> TRUE],
    [name |-> JStr(<<"A","p","p","l","e"," ","M","3">>), vendor |-> JStr(<<"A","p","p","l","e">>), vram |-> 800, isUnified |-> TRUE],
    [name |-> JStr(<<"A","p","p","l","e"," ","M","3">>), vendor |-> JStr(<<"A","p","p","l","e">>), vram |-> 1600, isUnified |-> TRUE],
    [name |-> JStr(<<"A","p","p","l","e"," ","M","3">>), vendor |-> JStr(<<"A","p","p","l","e">>), vram |-> 2400, isUnified |-> TRUE],
    [name |-> JStr(<<"A","p","p","l","e"," ","M","3"," ","P","r","o">>), vendor |-> JStr(<<"A","p","p","l","e">>), vram |-> 1800, isUnified |-> TRUE],
    [name |-> JStr(<<"A","p","p","l","e"," ","M","3"," ","P","r","o">>), vendor |-> JStr(<<"A","p","p","l","e">>), vram |-> 3600, isUnified |-> TRUE],
    [name |-> JStr(<<"A","p","p","l","e"," ","M","3"," ","M","a","x">>), vendor |-> JStr(<<"A","p","p","l","e">>), vram |-> 3600, isUnified |-> TRUE],
    [name |-> JStr(<<"A","p","p","l","e"," ","M","3"," ","M","a","x">>), vendor |-> JStr(<<"A","p","p","l","e">>), vram |-> 6400, isUnified |-> TRUE],
    [name |-> JStr(<<"A","p","p","l","e"," ","M","3"," ","M","a","x">>), vendor |-> JStr(<<"A","p","p","l","e">>), vram |-> 12800, isUnified |-> TRUE],
    [name |-> JStr(<<"A","p","p","l","e"," ","M","3"," ","U","l","t","r","a">>), vendor |-> JStr(<<"A","p","p","l","e">>), vram |-> 12800, isUnified |-> TRUE],
    [name |-> JStr(<<"A","p","p","l","e"," ","M","3"," ","U","l","t","r","a">>), vendor |-> JStr(<<"A","p","p","l","e">>), vram |-> 19200, isUnified |-> TRUE],
    [name |-> JStr(<<"R","y","z","e","n"," ","7"," ","7","8","4","0","U">>), vendor |-> JStr(<<"A","M","D">>), vram |-> 3200, isUnified |-> TRUE],
    [name |-> JStr(<<"R","y","z","e","n"," ","9"," ","7","9","4","0","H","S">>), vendor |-> JStr(<<"A","M","D">>), vram |-> 3200, isUnified |-> TRUE],
    [name |-> JStr(<<"R","y","z","e","n"," ","7"," ","6","8","0","0","U">>), vendor |-> JStr(<<"A","M","D">>), vram |-> 3200, isUnified |-> TRUE],
    [name |-> JStr(<<"R","y","z","e","n"," ","9"," ","6","9","0","0","H","X">>), vendor |-> JStr(<<"A","M","D">>), vram |-> 3200, isUnified |-> TRUE],
    [name |-> JStr(<<"R","y","z","e","n"," ","7"," ","5","8","0","0","U">>), vendor |-> JStr(<<"A","M","D">>), vram |-> 3200, isUnified |-> TRUE],
    [name |-> JStr(<<"C","o","r","e"," ","U","l","t","r","a"," ","7"," ","1","5","5","H"," ","(","M","e","t","e","o","r"," ","L","a","k","e",")">>), vendor |-> JStr(<<"I","n","t","e","l">>), vram |-> 3200, isUnified |-> TRUE],
    [name |-> JStr(<<"C","o","r","e"," ","U","l","t","r","a"," ","9"," ","1","8","5","H">>), vendor |-> JStr(<<"I","n","t","e","l">>), vram |-> 3200, isUnified |-> TRUE],
    [name |-> JStr(<<"C","o","r","e"," ","i","7","-","1","3","7","0","P"," ","(","I","r","i","s"," ","X","e",")">>), vendor |-> JStr(<<"I","n","t","e","l">>), vram |-> 3200, isUnified |-> TRUE],
    [name |-> JStr(<<"C","o","r","e"," ","i","9","-","1","3","9","0","0","H"," ","(","I","r","i","s"," ","X","e",")">>), vendor |-> JStr(<<"I","n","t","e","l">>), vram |-> 3200, isUnified |-> TRUE],
    [name |-> JStr(<<"S","n","a","p","d","r","a","g","o","n"," ","X"," ","E","l","i","t","e">>), vendor |-> JStr(<<"Q","u","a","l","c","o","m","m">>), vram |-> 3200, isUnified |-> TRUE],
    [name |-> JStr(<<"S","n","a","p","d","r","a","g","o","n"," ","8","c","x"," ","G","e","n"," ","3">>), vendor |-> JStr(<<"Q","u","a","l","c","o","m","m">>), vram |-> 3200, isUnified |-> TRUE],
    [name |-> JStr(<<"D","a","t","a"," ","C","e","n","t","e","r"," ","G","P","U"," ","M","a","x"," ","1","5","5","0">>), vendor |-> JStr(<<"I","n","t","e","l">>), vram |-> 12800, isUnified |-> FALSE],
    [name |-> JStr(<<"D","a","t","a"," ","C","e","n","t","e","r"," ","G","P","U"," ","M","a","x"," ","1","1","0","0">>), vendor |-> JStr(<<"I","n","t","e","l">>), vram |-> 4800, isUnified |-> FALSE]>>

\* device records as they appear in defaultGpuList
Gpu_RTX4090 ==
  [name |-> JStr(<<"R","T","X"," ","4","0","9","0">>), vram |-> 2400, isUnified |-> FALSE]
Gpu_RTX2080 ==
  [name |-> JStr(<<"R","T","X"," ","2","0","8","0">>), vram |-> 800, isUnified |-> FALSE]
Gpu_RTX2070 ==
  [name |-> JStr(<<"R","T","X"," ","2","0","7","0">>), vram |-> 800, isUnified |-> FALSE]
Gpu_M2Max ==
  [name |-> JStr(<<"A","p","p","l","e"," ","M","2"," ","M","a","x">>),
   vendor |-> JStr(<<"A","p","p","l","e">>), vram |-> 3200, isUnified |-> TRUE]
Gpu_M3Pro ==
  [name |-> JStr(<<"A","p","p","l","e"," ","M","3"," ","P","r","o">>),
   vendor |-> JStr(<<"A","p","p","l","e">>), vram |-> 3600, isUnified |-> TRUE]
\* device records as processGpuData builds them from a fetched catalog
Gpu_RTX4060 ==
  [id |-> <<"1","_","G","e","F","o","r","c","e"," ","R","T","X"," ","4","0","6","0","_","8">>,
   name |-> JStr(<<"G","e","F","o","r","c","e"," ","R","T","X"," ","4","0","6","0">>),
   vendor |-> JStr(<<"N","V","I","D","I","A">>), vram |-> 800, launchDate |-> JNull]

\* an entry with a fractional size: "Memory": "256 MB" is 256 / 1024 GB, which
\* Math.round(memSize * 10) / 10 makes 0.3
Gpu_GeForce6200 ==
  [id |-> <<"2","_","G","e","F","o","r","c","e"," ","6","2","0","0","_","0",".","3">>,
   name |-> JStr(<<"G","e","F","o","r","c","e"," ","6","2","0","0">>),
   vendor |-> JStr(<<"N","V","I","D","I","A">>), vram |-> 30, launchDate |-> JNull]

GpuPool == {Gpu_RTX4090, Gpu_RTX2080, Gpu_RTX2070, Gpu_M2Max, Gpu_M3Pro,
            Gpu_RTX4060, Gpu_GeForce6200}

GpuLists == UNION {[1..n -> GpuPool] : n \in 0..MaxGpus}

\* the values entered in the form of the page that shows the recommendations
RecModelParamsValues == {10, 548, 700, 40500}
RecQuantizationValues == {"FP16", "FP32"}
RecContextLengthValues == {4096, 32768}
RecBatchSizeValues == {1, 2}

RecConfigs ==
  RecModelParamsValues \X RecQuantizationValues \X RecContextLengthValues
    \X RecBatchSizeValues

(***************************************************************************)
(* GPU scoring                                                             *)
(*                                                                         *)
(* gpu.vram and the requirements are Numbers in the source.  The model     *)
(* keeps them in hundredths of a GB and NumberOf gives the Number the      *)
(* program holds; every product, quotient and sum is then computed on      *)
(* Numbers, rounding as the source's arithmetic rounds.  Two amounts are   *)
(* compared by their hundredths: distinct hundredths are distinct Numbers  *)
(* in the same order.                                                      *)
(***************************************************************************)
NumberOf(h) == FHundredths(h)

isWorkstationGpu(gpu) ==
  IF OptionalLowerCaseThrows(gpu) THEN TypeError ELSE
  LET name == toLowerCase(NameOf(gpu))
      nvidiaProMatch ==
        \/ includes(name, <<"r","t","x"," ","a">>)
        \/ includes(name, <<"t","e","s","l","a">>)
        \/ includes(name, <<"q","u","a","d","r","o">>)
        \/ includes(name, <<"a","1","0","0">>)
        \/ includes(name, <<"h","1","0","0">>)
        \/ includes(name, <<"a","4","0">>)
        \/ includes(name, <<"a","3","0">>)
        \/ includes(name, <<"a","1","0">>)
        \/ includes(name, <<"a","1","6">>)
        \/ includes(name, <<"a","2">>)
        \/ includes(name, <<"t","4">>)
        \/ includes(name, <<"v","1","0","0">>)
      amdProMatch ==
        \/ includes(name, <<"r","a","d","e","o","n"," ","p","r","o">>)
        \/ includes(name, <<"f","i","r","e","p","r","o">>)
        \/ includes(name, <<"r","a","d","e","o","n"," ","i","n","s","t","i","n","c","t">>)
        \/ (includes(name, <<"w">>) /\ MatchesWSeries(name))
      intelProMatch == includes(name, <<"x","e","o","n">>)
      generalProMatch ==
        \/ includes(name, <<"w","o","r","k","s","t","a","t","i","o","n">>)
        \/ includes(name, <<"p","r","o","f","e","s","s","i","o","n","a","l">>)
        \/ includes(name, <<"d","a","t","a","c","e","n","t","e","r">>)
  IN  nvidiaProMatch \/ amdProMatch \/ intelProMatch \/ generalProMatch

RECURSIVE AddEach(_, _)
\* score += bonus for each bonus in turn
AddEach(score, bonuses) ==
  IF Len(bonuses) = 0 THEN score
  ELSE AddEach(FAdd(score, FInt(Head(bonuses))), Tail(bonuses))

\* perfScore: gpu.vram * 10, then one += per bonus in the order of the source;
\* a TypeError when the name or the vendor cannot be lower-cased, here or in
\* isWorkstationGpu
estimateGpuPerformance(gpu) ==
  IF OptionalLowerCaseThrows(gpu) THEN TypeError ELSE
  LET name == toLowerCase(NameOf(gpu))
      vendor == toLowerCase(VendorOf(gpu))
      rtxBonus ==
        IF includes(name, <<"r","t","x">>)
        THEN (IF includes(name, <<"4","0">>) THEN 200
              ELSE IF includes(name, <<"3","0">>) THEN 150
              ELSE IF includes(name, <<"2","0">>) THEN 100 ELSE 0)
        ELSE 0
      rxBonus ==
        IF includes(name, <<"r","a","d","e","o","n">>) \/ includes(name, <<"r","x">>)
        THEN (IF includes(name, <<"7">>) THEN 180
              ELSE IF includes(name, <<"6">>) THEN 130
              ELSE IF includes(name, <<"5">>) THEN 80 ELSE 0)
        ELSE 0
      wsBonus == IF isWorkstationGpu(gpu) THEN 50 ELSE 0
      wsCardBonus ==
        IF isWorkstationGpu(gpu)
        THEN (IF includes(name, <<"a","1","0","0">>) THEN 300
              ELSE IF includes(name, <<"h","1","0","0">>) THEN 400
              ELSE IF includes(name, <<"a","6","0","0","0">>) THEN 250 ELSE 0)
        ELSE 0
      isApple ==
        /\ includes(vendor, <<"a","p","p","l","e">>)
        /\ (includes(name, <<"m","2">>) \/ includes(name, <<"m","3">>))
      appleBonus == IF isApple THEN 100 ELSE 0
      appleMaxBonus ==
        IF isApple /\ (includes(name, <<"m","a","x">>)
                         \/ includes(name, <<"u","l","t","r","a">>))
        THEN 50 ELSE 0
  IN  AddEach(FMul(NumberOf(gpu.vram), FInt(10)),
              <<rtxBonus, rxBonus, wsBonus, wsCardBonus, appleBonus, appleMaxBonus>>)

\* the score of a device of vram against requiredVram, both Numbers: zero
\* below the requirement, else 100 * (requiredVram / vram) and the bonuses
EfficiencyOf(vram, requiredVram, bonuses) ==
  IF FCmp(vram, requiredVram) < 0 THEN FZero
  ELSE AddEach(FMul(FInt(100), FDiv(requiredVram, vram)), bonuses)

\* calculateEfficiencyScore(gpu, requiredVram); requiredVram is a Number.
\* After the early return, a name or a vendor that cannot be lower-cased
\* gives a TypeError.
calculateEfficiencyScore(gpu, requiredVram) ==
  LET name == toLowerCase(NameOf(gpu))
      vendor == toLowerCase(VendorOf(gpu))
      consumerBonus == IF ~isWorkstationGpu(gpu) THEN 50 ELSE 0
      rtxBonus ==
        IF includes(name, <<"r","t","x">>)
        THEN (IF includes(name, <<"4","0">>) THEN 40
              ELSE IF includes(name, <<"3","0">>) THEN 30
              ELSE IF includes(name, <<"2","0">>) THEN 20 ELSE 0)
        ELSE 0
      rxBonus ==
        IF includes(name, <<"r","a","d","e","o","n">>) \/ includes(name, <<"r","x">>)
        THEN (IF includes(name, <<"7">>) THEN 35
              ELSE IF includes(name, <<"6">>) THEN 25 ELSE 0)
        ELSE 0
      appleBonus ==
        IF includes(vendor, <<"a","p","p","l","e">>)
           /\ (includes(name, <<"m","2">>) \/ includes(name, <<"m","3">>))
        THEN 60 ELSE 0
  IN  IF gpu.vram = 0 THEN FZero
      ELSE IF FCmp(NumberOf(gpu.vram), requiredVram) >= 0
              /\ OptionalLowerCaseThrows(gpu)
      THEN TypeError
      ELSE EfficiencyOf(NumberOf(gpu.vram), requiredVram,
                        <<consumerBonus, rtxBonus, rxBonus, appleBonus>>)

\* sign of (a.performance - b.performance)
CmpPerformance(a, b) == FCmp(a.performance, b.performance)

\* sign of (a.efficiency - b.efficiency)
CmpEfficiency(a, b) == FCmp(a.efficiency, b.efficiency)

(***************************************************************************)
(* Recommendation engine (gpuData.js)                                      *)
(*                                                                         *)
(* A catalog entry is handled as [ref, gpu]: ref is its position in        *)
(* availableGpus and stands for the identity of the JavaScript object      *)
(* (gpu !== bestGpu compares objects, not field values).  The fields       *)
(* totalVram, performance and efficiency of a solution are Numbers.        *)
(***************************************************************************)
MAX_GPU_CAP == 16

Refs(availableGpus) ==
  [i \in 1..Len(availableGpus) |-> [ref |-> i, gpu |-> availableGpus[i]]]

NoRecommendation(isUnifiedMemory) ==
  [optimal |-> Null, performance |-> Null, budget |-> Null,
   isUnifiedMemory |-> isUnifiedMemory]

\* a solution built from one device taken once; required is the requirement
\* (hundredths) its efficiency is scored against
SingleSolution(e, required, meets) ==
  IF OptionalLowerCaseThrows(e.gpu) THEN TypeError ELSE
  [gpu |-> e.gpu, ref |-> e.ref, count |-> 1, totalVram |-> NumberOf(e.gpu.vram),
   performance |-> estimateGpuPerformance(e.gpu),
   efficiency |-> calculateEfficiencyScore(e.gpu, NumberOf(required)),
   meetsRecommended |-> meets]

\* the solution of actualCount units of one device; requiredVramRec and vram
\* are Numbers
UnitsSolution(e, requiredVramRec, vram, actualCount) ==
  IF OptionalLowerCaseThrows(e.gpu) THEN TypeError ELSE
  [gpu |-> e.gpu, ref |-> e.ref, count |-> actualCount,
   totalVram |-> FMul(vram, FInt(actualCount)),
   performance |-> FMul(estimateGpuPerformance(e.gpu), FSqrtInt(actualCount)),
   efficiency |->
     calculateEfficiencyScore(e.gpu, FDiv(requiredVramRec, FInt(actualCount))),
   meetsRecommended |->
     FCmp(FMul(vram, FInt(actualCount)), requiredVramRec) >= 0]

\* Math.ceil(requiredVramRec / gpu.vram) on Numbers
UnitCount(requiredVramRec, vram) == FCeil(FDiv(requiredVramRec, vram))

\* several units of one device without the cap of 16
MultiSolution_NoCap(e, requiredVramRec) ==
  UnitsSolution(e, NumberOf(requiredVramRec), NumberOf(e.gpu.vram),
                UnitCount(NumberOf(requiredVramRec), NumberOf(e.gpu.vram)))

\* a solution built from several units of one device, capped at 16;
\* requiredVramRec in hundredths
MultiSolution(e, requiredVramRec) ==
  UnitsSolution(e, NumberOf(requiredVramRec), NumberOf(e.gpu.vram),
                Min(UnitCount(NumberOf(requiredVramRec), NumberOf(e.gpu.vram)),
                    MAX_GPU_CAP))

\* The solutions the engine builds for the devices of the model and of
\* defaultGpuList under the requirements of RecConfigs (vramMinGB and
\* vramRecGB, in hundredths), computed once; the solution of any other device
\* or requirement is computed when asked.
RequiredPairs ==
  {<<169, 186>>, <<169, 200>>, <<169, 285>>, <<169, 397>>,
   <<187, 223>>, <<187, 251>>, <<187, 420>>, <<187, 645>>,
   <<1171, 1575>>, <<1171, 1775>>, <<1171, 2975>>, <<1171, 4575>>,
   <<1454, 1915>>, <<1454, 2115>>, <<1454, 3315>>, <<1454, 4915>>,
   <<2191, 3000>>, <<2191, 3400>>, <<2191, 5800>>, <<2191, 9000>>,
   <<2758, 3679>>, <<2758, 4079>>, <<2758, 6479>>, <<2758, 9679>>,
   <<75587, 92475>>, <<75587, 94275>>, <<75587, 105075>>, <<75587, 119475>>,
   <<151024, 184799>>, <<151024, 188399>>, <<151024, 209999>>, <<151024, 238799>>}

RequiredAmounts == UNION {{p[1], p[2]} : p \in RequiredPairs}

TableGpus == GpuPool \cup {defaultGpuList[i] : i \in 1..Len(defaultGpuList)}

\* the largest size of the devices of defaultGpuList that are not unified
LargestVram ==
  CHOOSE v \in {g.vram : g \in {d \in TableGpus \ GpuPool : ~IsUnifiedOf(d)}} :
    \A g \in TableGpus \ GpuPool : ~IsUnifiedOf(g) => g.vram <= v

\* the requirement a device is scored against as a single device
SingleAsked(gpu, requiredVramMin, requiredVramRec) ==
  IF gpu.vram >= requiredVramRec THEN {requiredVramRec}
  ELSE IF IsUnifiedOf(gpu) /\ gpu.vram >= requiredVramMin THEN {requiredVramMin}
  ELSE {}

SingleSolutionTable ==
  [k \in UNION {{p[1]} \X SingleAsked(p[1], p[2][1], p[2][2]) :
                  p \in TableGpus \X RequiredPairs} |->
     SingleSolution([ref |-> 0, gpu |-> k[1]], k[2], TRUE)] @@ <<>>

MultiAsked(gpu, requiredVramMin, requiredVramRec) ==
  /\ gpu.vram > 0
  /\ gpu.vram < requiredVramRec
  /\ ~IsUnifiedOf(gpu)
  /\ (gpu \in GpuPool \/ gpu.vram >= requiredVramMin \/ gpu.vram >= LargestVram)

MultiSolutionTable ==
  [k \in {<<p[1], p[2][2]>> :
            p \in {q \in TableGpus \X RequiredPairs : MultiAsked(q[1], q[2][1], q[2][2])}} |->
     MultiSolution([ref |-> 0, gpu |-> k[1]], k[2])] @@ <<>>

\* a TypeError left the callback of a map that builds the solutions
Threw(solutions) == \E i \in 1..Len(solutions) : "threw" \in DOMAIN solutions[i]

SingleSolutionOf(e, required, meets) ==
  IF OptionalLowerCaseThrows(e.gpu) THEN TypeError ELSE
  [FirstOr(Found(SingleSolutionTable, <<e.gpu, required>>),
           SingleSolution(e, required, meets))
     EXCEPT !.ref = e.ref, !.meetsRecommended = meets]

MultiSolutionOf(e, requiredVramRec) ==
  IF OptionalLowerCaseThrows(e.gpu) THEN TypeError ELSE
  [FirstOr(Found(MultiSolutionTable, <<e.gpu, requiredVramRec>>),
           MultiSolution(e, requiredVramRec))
     EXCEPT !.ref = e.ref]

CmpVramDesc(a, b) ==
  IF b.gpu.vram > a.gpu.vram THEN 1 ELSE IF b.gpu.vram < a.gpu.vram THEN -1 ELSE 0

\* comparator of optimalSolutions: fewer devices first, then efficiency
CmpOptimal(a, b) ==
  IF a.count # b.count THEN (IF a.count < b.count THEN -1 ELSE 1)
  ELSE CmpEfficiency(b, a)

\* comparator of performanceSolutions
CmpPerformanceDesc(a, b) == CmpPerformance(b, a)

\* comparator of budgetSolutions; requiredVramRec is a Number
CmpBudget(a, b, requiredVramRec) ==
  IF FCmp(a.totalVram, requiredVramRec) >= 0 /\ FCmp(b.totalVram, requiredVramRec) < 0
  THEN -1
  ELSE IF FCmp(a.totalVram, requiredVramRec) < 0
          /\ FCmp(b.totalVram, requiredVramRec) >= 0
  THEN 1
  ELSE CmpEfficiency(b, a)

\* comparator of optimalDevices (unified memory)
CmpUnifiedOptimal(a, b) ==
  IF a.meetsRecommended # b.meetsRecommended
  THEN (IF a.meetsRecommended THEN -1 ELSE 1)
  ELSE CmpPerformance(b, a)

\* comparator of budgetDevices (unified memory)
CmpUnifiedBudget(a, b) ==
  IF a.meetsRecommended # b.meetsRecommended
  THEN (IF a.meetsRecommended THEN -1 ELSE 1)
  ELSE CmpEfficiency(b, a)

\* the unified candidates when the memory filter forgets the isUnified flag
UnifiedCandidates_AnyDevice(memoryRequirements, availableGpus) ==
  LET requiredMemoryMin == memoryRequirements.vramMinGB
      requiredMemoryRec == memoryRequirements.vramRecGB
      KeepUnified(e) == e.gpu.vram >= requiredMemoryMin
      unifiedDevices == Filter(Refs(availableGpus), KeepUnified)
      KeepRec(e) == e.gpu.vram >= requiredMemoryRec
      KeepMin(e) == e.gpu.vram >= requiredMemoryMin /\ e.gpu.vram < requiredMemoryRec
      recommended == Filter(unifiedDevices, KeepRec)
      minimum == Filter(unifiedDevices, KeepMin)
      devices == recommended \o minimum
      \* recommendedDevices are scored against the recommended requirement,
      \* minimumDevices against the minimum
  IN  [i \in 1..Len(devices) |->
         SingleSolutionOf(devices[i],
                          IF i <= Len(recommended) THEN requiredMemoryRec
                          ELSE requiredMemoryMin,
                          i <= Len(recommended))]

\* allDevices of recommendUnifiedMemorySetup
UnifiedCandidates(memoryRequirements, availableGpus) ==
  LET requiredMemoryMin == memoryRequirements.vramMinGB
      requiredMemoryRec == memoryRequirements.vramRecGB
      KeepUnified(e) == IsUnifiedOf(e.gpu) /\ e.gpu.vram >= requiredMemoryMin
      unifiedDevices == Filter(Refs(availableGpus), KeepUnified)
      KeepRec(e) == e.gpu.vram >= requiredMemoryRec
      KeepMin(e) == e.gpu.vram >= requiredMemoryMin /\ e.gpu.vram < requiredMemoryRec
      recommended == Filter(unifiedDevices, KeepRec)
      minimum == Filter(unifiedDevices, KeepMin)
      devices == recommended \o minimum
      \* recommendedDevices are scored against the recommended requirement,
      \* minimumDevices against the minimum
  IN  [i \in 1..Len(devices) |->
         SingleSolutionOf(devices[i],
                          IF i <= Len(recommended) THEN requiredMemoryRec
                          ELSE requiredMemoryMin,
                          i <= Len(recommended))]

\* the three slots of recommendUnifiedMemorySetup from allDevices
RankedDevices(allDevices) ==
  IF Threw(allDevices) THEN TypeError
  ELSE IF Len(allDevices) = 0 THEN NoRecommendation(TRUE)
  ELSE [optimal |-> FirstOrNull(SortBy(allDevices, CmpUnifiedOptimal)),
        performance |-> FirstOrNull(SortBy(allDevices, CmpPerformanceDesc)),
        budget |-> FirstOrNull(SortBy(allDevices, CmpUnifiedBudget)),
        isUnifiedMemory |-> TRUE]

recommendUnifiedMemorySetup(memoryRequirements, availableGpus) ==
  RankedDevices(UnifiedCandidates(memoryRequirements, availableGpus))

\* a filter that lost its negation and keeps the unified devices
CompatibleGpus_KeepsUnified(availableGpus) ==
  LET Keep(e) == IsUnifiedOf(e.gpu) /\ e.gpu.vram > 0
  IN  Filter(Refs(availableGpus), Keep)

\* compatibleGpus of recommendOptimalGpuSetup
CompatibleGpus(availableGpus) ==
  LET Keep(e) == ~IsUnifiedOf(e.gpu) /\ e.gpu.vram > 0
  IN  Filter(Refs(availableGpus), Keep)

\* singleGpuSolutions: one solution per device that meets the recommendation
SingleGpuSolutions(singles, requiredVramRec) ==
  [i \in 1..Len(singles) |-> SingleSolutionOf(singles[i], requiredVramRec, TRUE)]

\* multiGpuSolutions and minimumGpuSolutions build their entries alike
MultiGpuSolutions(multiples, requiredVramRec) ==
  [i \in 1..Len(multiples) |-> MultiSolutionOf(multiples[i], requiredVramRec)]

\* the devices singleGpuSolutions is mapped from
SingleCandidates(sortedGpus, requiredVramRec) ==
  LET KeepSingle(e) == e.gpu.vram >= requiredVramRec
  IN  Filter(sortedGpus, KeepSingle)

\* bestGpu = sortedGpus[0] when it needs several units, then the devices
\* minimumGpuSolutions is mapped from
MultiCandidates(sortedGpus, requiredVramMin, requiredVramRec) ==
  LET KeepBest(e) ==
        /\ e.ref = sortedGpus[1].ref
        /\ e.gpu.vram > 0
        /\ e.gpu.vram < requiredVramRec
      KeepMinimum(e) ==
        /\ e.gpu.vram >= requiredVramMin
        /\ e.gpu.vram < requiredVramRec
        /\ e.ref # sortedGpus[1].ref
  IN  Filter(sortedGpus, KeepBest) \o Filter(sortedGpus, KeepMinimum)

\* allSolutions from sortedGpus
SolutionsOf(sortedGpus, requiredVramMin, requiredVramRec) ==
  SingleGpuSolutions(SingleCandidates(sortedGpus, requiredVramRec), requiredVramRec)
    \o MultiGpuSolutions(MultiCandidates(sortedGpus, requiredVramMin, requiredVramRec),
                         requiredVramRec)

\* allSolutions.length: map and push give one solution per device
SolutionCount(sortedGpus, requiredVramMin, requiredVramRec) ==
  Len(SingleCandidates(sortedGpus, requiredVramRec))
    + Len(MultiCandidates(sortedGpus, requiredVramMin, requiredVramRec))

\* allSolutions of recommendOptimalGpuSetup (discrete memory)
DiscreteCandidates(memoryRequirements, availableGpus) ==
  SolutionsOf(SortBy(CompatibleGpus(availableGpus), CmpVramDesc),
              memoryRequirements.vramMinGB, memoryRequirements.vramRecGB)

\* the result when no solution was built: the largest compatible device,
\* scored against the minimum
MinimumRecommendation(minimumSolution, isUnifiedMemory) ==
  IF "threw" \in DOMAIN minimumSolution THEN TypeError ELSE
  [optimal |-> minimumSolution, performance |-> minimumSolution,
   budget |-> minimumSolution, isUnifiedMemory |-> isUnifiedMemory]

\* the three slots of recommendOptimalGpuSetup from allSolutions;
\* requiredVramRec is a Number, requiredVramMin in hundredths
RankedSolutions(allSolutions, compatibleGpus, requiredVramMin, requiredVramRec, isUnifiedMemory) ==
  LET BudgetCmp(a, b) == CmpBudget(a, b, requiredVramRec)
  IN  IF Threw(allSolutions) THEN TypeError
      ELSE IF Len(allSolutions) = 0
      THEN MinimumRecommendation(
             SingleSolutionOf(SortBy(compatibleGpus, CmpVramDesc)[1],
                              requiredVramMin, FALSE),
             isUnifiedMemory)
      ELSE [optimal |-> FirstOrNull(SortBy(allSolutions, CmpOptimal)),
            performance |-> FirstOrNull(SortBy(allSolutions, CmpPerformanceDesc)),
            budget |-> FirstOrNull(SortBy(allSolutions, BudgetCmp)),
            isUnifiedMemory |-> isUnifiedMemory]

recommendOptimalGpuSetup(memoryRequirements, availableGpus, isUnifiedMemory) ==
  IF Len(availableGpus) = 0 THEN NoRecommendation(isUnifiedMemory)
  ELSE IF isUnifiedMemory
  THEN recommendUnifiedMemorySetup(memoryRequirements, availableGpus)
  ELSE IF Len(CompatibleGpus(availableGpus)) = 0
  THEN NoRecommendation(isUnifiedMemory)
  ELSE RankedSolutions(DiscreteCandidates(memoryRequirements, availableGpus),
                       CompatibleGpus(availableGpus),
                       memoryRequirements.vramMinGB,
                       NumberOf(memoryRequirements.vramRecGB),
                       isUnifiedMemory)

(***************************************************************************)
(* The arrays of a call                                                    *)
(*                                                                         *)
(* A call holds devices in the array it was given, availableGpus, and in   *)
(* the arrays it builds.  filter and map return a new array, [...a] is a   *)
(* new array, and sort sorts the array it is called on.  No statement      *)
(* assigns to a field of a device.  The arrays are kept by the name of the *)
(* constant that refers to them; the arrays of solutions are built of new  *)
(* objects and hold no device of their own.                                *)
(***************************************************************************)
DevicesOf(entries) == [i \in 1..Len(entries) |-> entries[i].gpu]

\* the arrays when the call starts: the argument, and nothing built yet
ArraysAtCall(availableGpus) ==
  [availableGpus |-> availableGpus, compatibleGpus |-> <<>>, sortedGpus |-> <<>>,
   unifiedDevices |-> <<>>]

\* a version that removes the other devices from the array it was given
FilterCompatibleGpus_InPlace(arrays) ==
  [arrays EXCEPT !.availableGpus = DevicesOf(CompatibleGpus(arrays.availableGpus)),
                 !.compatibleGpus = CompatibleGpus(arrays.availableGpus)]

\* const compatibleGpus = availableGpus.filter(gpu => gpu.vram > 0 &&
\*   !gpu.isUnified)
FilterCompatibleGpus(arrays) ==
  [arrays EXCEPT !.compatibleGpus = CompatibleGpus(arrays.availableGpus)]

\* const sortedGpus = [...compatibleGpus].sort((a, b) => b.vram - a.vram)
SpreadSortedGpus(arrays) ==
  [arrays EXCEPT !.sortedGpus = SortBy(arrays.compatibleGpus, CmpVramDesc)]

\* const bestMinimumGpu = compatibleGpus.sort((a, b) => b.vram - a.vram)[0]
SortCompatibleGpus(arrays) ==
  [arrays EXCEPT !.compatibleGpus = SortBy(arrays.compatibleGpus, CmpVramDesc)]

\* const unifiedDevices = availableGpus.filter(gpu => gpu.isUnified &&
\*   gpu.vram >= requiredMemoryMin)
FilterUnifiedDevices(arrays, requiredMemoryMin) ==
  LET Keep(e) == IsUnifiedOf(e.gpu) /\ e.gpu.vram >= requiredMemoryMin
  IN  [arrays EXCEPT !.unifiedDevices = Filter(Refs(arrays.availableGpus), Keep)]

\* the arrays after the statements of recommendOptimalGpuSetup for discrete
\* memory: the filter, then the sort of a copy, then, when no solution was
\* built, the sort of compatibleGpus
ArraysOfDiscrete(memoryRequirements, arrays) ==
  IF Len(FilterCompatibleGpus(arrays).compatibleGpus) = 0
  THEN FilterCompatibleGpus(arrays)
  ELSE IF SolutionCount(SpreadSortedGpus(FilterCompatibleGpus(arrays)).sortedGpus,
                        memoryRequirements.vramMinGB,
                        memoryRequirements.vramRecGB) = 0
  THEN SortCompatibleGpus(SpreadSortedGpus(FilterCompatibleGpus(arrays)))
  ELSE SpreadSortedGpus(FilterCompatibleGpus(arrays))

\* The array passed as availableGpus, as a call of recommendOptimalGpuSetup
\* leaves it.  The call returns at once for an empty array; for unified
\* memory it runs recommendUnifiedMemorySetup, whose only statement on
\* availableGpus is the filter that builds unifiedDevices.
availableGpusAfterCall(memoryRequirements, availableGpus, isUnifiedMemory) ==
  IF Len(availableGpus) = 0 THEN availableGpus
  ELSE IF isUnifiedMemory
  THEN FilterUnifiedDevices(ArraysAtCall(availableGpus),
                            memoryRequirements.vramMinGB).availableGpus
  ELSE ArraysOfDiscrete(memoryRequirements, ArraysAtCall(availableGpus)).availableGpus

(***************************************************************************)
(* State                                                                   *)
(***************************************************************************)
VARIABLES
  \* App.jsx: the inputs of the form and the result of the calculation effect
  modelParams, quantization, contextLength, batchSize, isUnifiedMemory, results,
  \* App.jsx: the state gpuListLoading, whether a render scheduled the
  \* calculation effect and it has not run yet, and where the fetch of the
  \* mount effect stands
  gpuListLoading, effectPending, mountFetch,
  \* the state gpuList of App.jsx; the requirements and the mode the last
  \* render passed to recommendOptimalGpuSetup with it, and the
  \* recommendations it showed
  recRequirements, gpuList, recIsUnified, recommendations,
  \* processGpuData: the catalog the API serves, the localStorage item
  \* 'gpu_data_cache', the wall clock (ms), the position of the running call,
  \* its attempt number and lastError, and the calls settled so far
  server, storage, clock, pc, attempt, lastError, calls,
  \* getCachedGpuList: the module variable cachedGpuList and the calls made
  \* so far, each with its position and the value it resolved with
  cachedGpuList, listCalls

calcVars == <<modelParams, quantization, contextLength, batchSize,
              isUnifiedMemory, results, gpuListLoading, effectPending, mountFetch>>
componentVars == <<recRequirements, recIsUnified, recommendations>>
recVars == <<recRequirements, gpuList, recIsUnified, recommendations>>
fetchVars == <<server, storage, clock, pc, attempt, lastError, calls>>
listVars == <<cachedGpuList, listCalls>>
vars == <<calcVars, recVars, fetchVars, listVars>>

(***************************************************************************)
(* processGpuData: cache, fetch with retries, normalization                *)
(***************************************************************************)
\* a JavaScript array of device records, built by the call that returns it
JArr(list) == [t |-> "array", v |-> list]

\* the array defaultGpuList itself: the module exports one array and
\* processGpuData returns that very object
DefaultListRef == [t |-> "array", ref |-> "defaultGpuList"]

\* the device records of a returned array
Devices(value) == IF "ref" \in DOMAIN value THEN defaultGpuList ELSE value.v

\* a raw catalog: the object the API serves, as its Object.entries
RawCatalog(entries) == [t |-> "object", v |-> entries]

Entry(key, value) == [key |-> key, value |-> value]

\* a catalog in the format of the API, with a parenthesised suffix and a
\* vendor prefix to clean
Catalog_Typical ==
  RawCatalog(<<
    Entry(<<"0">>, JObj("Model" :> JStr(<<"N","V","I","D","I","A"," ","G","e","F","o","r","c","e"," ","R","T","X"," ","3","0","8","0"," ","(","L","a","p","t","o","p",")">>)
                     @@ "Vendor" :> JStr(<<"N","V","I","D","I","A">>)
                     @@ "Memory Size (GB)" :> JNum(1000)
                     @@ "Launch" :> JStr(<<"2","0","2","0","-","0","9","-","1","7">>))),
    Entry(<<"1">>, JObj("Model" :> JStr(<<"R","a","d","e","o","n"," ","R","X"," ","6","8","0","0">>)
                     @@ "Vendor" :> JStr(<<"A","M","D">>)
                     @@ "Memory" :> JStr(<<"1","6"," ","G","B">>)))>>)

\* sizes in MB, equal sizes, names equal up to case, records to skip
Catalog_Ties ==
  RawCatalog(<<
    Entry(<<"a">>, JObj("Model" :> JStr(<<"R","T","X"," ","A","4","0","0","0">>) @@ "VRAM" :> JNum(1600))),
    Entry(<<"b">>, JObj("Model" :> JStr(<<"r","t","x"," ","a","4","0","0","0">>)
                     @@ "Memory Size" :> JStr(<<"1","6","3","8","4"," ","M","B">>))),
    Entry(<<"c">>, JObj("Vendor" :> JStr(<<"I","n","t","e","l">>))),
    Entry(<<"d">>, JStr(<<"n","/","a">>))>>)

\* sizes to infer from the name, to look up by family, and to round
Catalog_Inferred ==
  RawCatalog(<<
    Entry(<<"0">>, JObj("Model" :> JStr(<<"T","e","s","l","a"," ","V","1","0","0">>))),
    Entry(<<"1">>, JObj("Model" :> JStr(<<"G","e","F","o","r","c","e"," ","G","T","X"," ","1","0","6","0"," ","6","G","B">>)
                     @@ "Memory" :> JStr(<<"u","n","k","n","o","w","n">>))),
    Entry(<<"2">>, JObj("Model" :> JStr(<<"Q","u","a","d","r","o"," ","K","6","2","0">>)
                     @@ "Memory Size (GB)" :> JNum(204800)))>>)

\* a record whose Model is a number and that has no memory field
Catalog_NumericModel ==
  RawCatalog(<<
    Entry(<<"0">>, JObj("Model" :> JStr(<<"R","T","X"," ","4","0","9","0">>) @@ "Memory" :> JStr(<<"2","4","G","B">>))),
    Entry(<<"1">>, JObj("Model" :> JNum(308000)))>>)

\* a catalog with an Apple silicon device
Catalog_Unified ==
  RawCatalog(<<
    Entry(<<"0">>, JObj("Model" :> JStr(<<"A","p","p","l","e"," ","M","2"," ","M","a","x">>)
                     @@ "Vendor" :> JStr(<<"A","p","p","l","e">>)
                     @@ "Memory" :> JStr(<<"3","2"," ","G","B">>))),
    Entry(<<"1">>, JObj("Model" :> JStr(<<"G","e","F","o","r","c","e"," ","R","T","X"," ","3","0","6","0">>)
                     @@ "Vendor" :> JStr(<<"N","V","I","D","I","A">>)
                     @@ "Memory" :> JStr(<<"1","2"," ","G","B">>)))>>)

\* memory fields that list several sizes: a range, alternatives, a list
Catalog_Listed ==
  RawCatalog(<<
    Entry(<<"0">>, JObj("Model" :> JStr(<<"R","a","d","e","o","n"," ","R","X"," ","4","7","0">>)
                     @@ "Memory" :> JStr(<<"4","-","8"," ","G","B">>))),
    Entry(<<"1">>, JObj("Model" :> JStr(<<"R","a","d","e","o","n"," ","R","X"," ","4","8","0">>)
                     @@ "Memory" :> JStr(<<"8","-","4"," ","G","B">>))),
    Entry(<<"2">>, JObj("Model" :> JStr(<<"G","e","F","o","r","c","e"," ","G","T","X"," ","1","0","6","0">>)
                     @@ "Memory" :> JStr(<<"6","/","3"," ","G","B">>))),
    Entry(<<"3">>, JObj("Model" :> JStr(<<"G","e","F","o","r","c","e"," ","R","T","X"," ","4","0","6","0"," ","T","i">>)
                     @@ "Memory" :> JStr(<<"8"," ","G","B",","," ","1","6"," ","G","B">>)))>>)

\* a numeric 0 and a text without a number in the fields of highest priority,
\* and a size in a field of lower priority
Catalog_Shadowed ==
  RawCatalog(<<
    Entry(<<"0">>, JObj("Model" :> JStr(<<"A","r","c"," ","P","r","o"," ","B","6","0">>)
                     @@ "Memory Size (GB)" :> JNum(0)
                     @@ "Memory" :> JStr(<<"2","4"," ","G","B">>))),
    Entry(<<"1">>, JObj("Model" :> JStr(<<"A","r","c"," ","P","r","o"," ","B","5","0">>)
                     @@ "Memory Size (GB)" :> JStr(<<"u","n","k","n","o","w","n">>)
                     @@ "VRAM" :> JStr(<<"1","6"," ","G","B">>)))>>)

\* a Vendor and a Model that are not strings: a number for the vendor the
\* model name starts with, a number and an object for the model, a boolean
\* for the vendor; the device named by a number and the device after it have
\* the same size
Catalog_Untyped ==
  RawCatalog(<<
    Entry(<<"0">>, JObj("Model" :> JStr(<<"5"," ","R","T","X">>) @@ "Vendor" :> JNum(500)
                     @@ "Memory" :> JStr(<<"8"," ","G","B">>))),
    Entry(<<"1">>, JObj("Model" :> JNum(308000) @@ "Memory" :> JStr(<<"1","0"," ","G","B">>))),
    Entry(<<"2">>, JObj("Model" :> JObj("series" :> JNum(700)) @@ "VRAM" :> JNum(1200)
                     @@ "Vendor" :> JObj("name" :> JStr(<<"A","M","D">>)))),
    Entry(<<"3">>, JObj("Model" :> JStr(<<"t","r","u","e"," ","B","l","u","e">>)
                     @@ "Vendor" :> JBool(TRUE)
                     @@ "Memory" :> JStr(<<"1","0"," ","G","B">>)))>>)

\* two devices of the same size, the second named by a number
Catalog_UntypedTie ==
  RawCatalog(<<
    Entry(<<"0">>, JObj("Model" :> JStr(<<"A","r","c"," ","A","7","5","0">>)
                     @@ "Memory" :> JStr(<<"8"," ","G","B">>))),
    Entry(<<"1">>, JObj("Model" :> JNum(75000) @@ "Memory" :> JStr(<<"8"," ","G","B">>)))>>)

Catalog_Empty == RawCatalog(<<>>)

RawCatalogs ==
  {Catalog_Typical, Catalog_Ties, Catalog_Inferred, Catalog_NumericModel,
   Catalog_Unified, Catalog_Listed, Catalog_Shadowed, Catalog_Untyped,
   Catalog_UntypedTie, Catalog_Empty}

\* a device record as JSON: vram is a number, isUnified a boolean
JsonOf(gpu) ==
  JObj([f \in DOMAIN gpu |->
          IF f = "vram" THEN JNum(gpu[f])
          ELSE IF f = "isUnified" THEN JBool(gpu[f])
          ELSE gpu[f]])

\* a body that is JSON and no catalog: the number 5
Body_Number == JNum(500)

\* a body that is a JSON array, of records in the form of defaultGpuList
Body_DeviceArray ==
  [t |-> "array", v |-> <<JsonOf(Gpu_M2Max), JsonOf(Gpu_RTX2080), JsonOf(Gpu_RTX4090)>>]

\* the JSON bodies the API may serve: a catalog, null, 0, 5, or an array
ServerBodies == RawCatalogs \cup {JNull, JNum(0), Body_Number, Body_DeviceArray}

CACHE_EXPIRATION == 24 * 60 * 60 * 1000
MAX_RETRIES == 3
FETCH_TIMEOUT == 5000

\* localStorage.getItem('gpu_data_cache'): no item, a string that is not JSON,
\* or what cacheGpuData wrote
NoItem == [item |-> "none"]
CorruptItem == [item |-> "corrupt"]
CacheObject(timestamp, data) ==
  [item |-> "json", timestamp |-> timestamp, data |-> data]

\* a version whose entry is still valid at the age of exactly 24 hours
getCachedGpuData_ValidAtLimit(item, now) ==
  IF item = NoItem THEN [value |-> JNull, storage |-> item]
  ELSE IF item = CorruptItem THEN [value |-> JNull, storage |-> item]
  ELSE IF item.timestamp # 0 /\ now - item.timestamp <= CACHE_EXPIRATION
  THEN [value |-> item.data, storage |-> item]
  ELSE [value |-> JNull, storage |-> NoItem]

\* getCachedGpuData: the value returned and the item left in localStorage.
\* JSON.parse(JSON.stringify(x)) gives back x for a value x that came from
\* JSON, and the data cached is always the parsed response body.
getCachedGpuData(item, now) ==
  IF item = NoItem THEN [value |-> JNull, storage |-> item]
  ELSE IF item = CorruptItem THEN [value |-> JNull, storage |-> item]
  ELSE IF item.timestamp # 0 /\ now - item.timestamp < CACHE_EXPIRATION
  THEN [value |-> item.data, storage |-> item]
  ELSE [value |-> JNull, storage |-> NoItem]

\* cacheGpuData: the item left in localStorage; setItem may throw (quota,
\* storage disabled) and the exception is swallowed
cacheGpuData(item, data, now, setItemThrows) ==
  IF setItemThrows THEN item ELSE CacheObject(now, data)

\* Object.keys(data) throws a TypeError for null
ObjectKeysThrows(data) == data.t = "null"

\* what a settled call leaves: how it settled and with which value
Resolved(value) == [settled |-> "resolved", value |-> value]
Rejected(error) == [settled |-> "rejected", value |-> JStr(error)]

\* } catch (error) { ...; return defaultGpuList; }  (the outer catch)
OuterCatch(error) == Resolved(DefaultListRef)

\* Object.entries of an array: the keys are the indices
ArrayEntries(list) == [i \in 1..Len(list) |-> Entry(NatToChars(i - 1), list[i])]

NormalizedOutcome(normalized) ==
  IF normalized.threw
  THEN OuterCatch(<<"T","y","p","e","E","r","r","o","r">>)
  ELSE Resolved(JArr(normalized.list))

\* The statements after the retry loop, for a data that is not null.  The
\* entries of a string are its characters and a number or a boolean has
\* none: no entry is an object, and the list is empty.
AfterLoop(data) ==
  IF ~Truthy(data) THEN Resolved(DefaultListRef)
  ELSE IF data.t = "object" THEN NormalizedOutcome(NormalizeCatalog(data.v))
  ELSE IF data.t = "array"
  THEN NormalizedOutcome(NormalizeCatalog(ArrayEntries(data.v)))
  ELSE Resolved(JArr(<<>>))

\* time: milliseconds since an instant two days before the page is loaded
StartClock == 2 * CACHE_EXPIRATION
TickSteps == {CACHE_EXPIRATION - 1, CACHE_EXPIRATION}
MaxCalls == 2

\* a backoff that grows by 500 ms with every attempt
delayMs_Linear(attempt_) == attempt_ * 500

\* const delayMs = Math.pow(2, attempt) * 500
delayMs(attempt_) == (2 ^ attempt_) * 500

\* the longest a call can take up to its last abort: every attempt is
\* aborted by the timer, and every attempt but the last is followed by a delay
MaxCallDuration == MAX_RETRIES * FETCH_TIMEOUT + delayMs(1) + delayMs(2)
MaxClock == StartClock + CACHE_EXPIRATION + MaxCalls * MaxCallDuration

FetchIdle ==
  /\ server = Catalog_Empty
  /\ storage = NoItem
  /\ clock = StartClock
  /\ pc = "idle"
  /\ attempt = 0
  /\ lastError = "none"
  /\ calls = <<>>

\* localStorage outlives the page.  An earlier load of the page that got a
\* body wrote it with the time of that load: a minute ago, or 24 hours ago.
\* The body was one Object.keys accepts: a catalog, 0, 5, or an array.
PersistedAges == {60 * 1000, CACHE_EXPIRATION}
PersistedBodies == {Catalog_Typical, JNum(0), Body_Number, Body_DeviceArray}
PersistedItems ==
  {cacheGpuData(NoItem, data, StartClock - age, FALSE) :
     data \in PersistedBodies, age \in PersistedAges}

\* the page is loaded: localStorage is empty, holds something that does not
\* parse, or holds what an earlier load wrote
FetchInit ==
  /\ server \in ServerBodies
  /\ storage \in {NoItem, CorruptItem} \cup PersistedItems
  /\ clock = StartClock
  /\ pc = "idle"
  /\ attempt = 0
  /\ lastError = "none"
  /\ calls = <<>>

\* the call settles: the record of the call, with the number of attempts it
\* made and whether it wrote the cache
Settle(origin, outcome, attempts, wrote) ==
  Append(calls, [origin |-> origin, settled |-> outcome.settled,
                 value |-> outcome.value, attempts |-> attempts,
                 wrote |-> wrote])

\* processGpuData() up to its first await: the cache is read; a hit is
\* returned as it is, a miss starts the first attempt
Call ==
  /\ pc = "idle"
  /\ Len(calls) < MaxCalls
  /\ LET cachedData == getCachedGpuData(storage, clock)
     IN  /\ storage' = cachedData.storage
         /\ IF Truthy(cachedData.value)
            THEN /\ calls' = Settle("cache", Resolved(cachedData.value), 0, FALSE)
                 /\ UNCHANGED <<pc, attempt>>
            ELSE /\ pc' = "fetch"
                 /\ attempt' = 1
                 /\ UNCHANGED calls
  /\ UNCHANGED <<server, clock, lastError>>

\* an attempt failed: lastError is set; the call waits before the next
\* attempt, or leaves the loop with data = null and returns defaultGpuList
AttemptFailed(kind) ==
  /\ IF attempt < MAX_RETRIES
     THEN /\ pc' = "backoff"
          /\ lastError' = kind
          /\ UNCHANGED <<calls, attempt>>
     ELSE /\ pc' = "idle"
          /\ attempt' = 0
          /\ lastError' = "none"
          /\ calls' = Settle("fallback", Resolved(DefaultListRef),
                             attempt, FALSE)
  /\ UNCHANGED <<server, storage>>

\* fetch rejects: the network failed
FetchRejects ==
  /\ pc = "fetch"
  /\ AttemptFailed("network_error")
  /\ UNCHANGED clock

\* the timer of fetchWithTimeout fires and aborts the request
FetchAborted ==
  /\ pc = "fetch"
  /\ clock + FETCH_TIMEOUT <= MaxClock
  /\ clock' = clock + FETCH_TIMEOUT
  /\ AttemptFailed("abort")

\* the response arrives with a status that is not ok
ResponseNotOk ==
  /\ pc = "fetch"
  /\ AttemptFailed("not_ok")
  /\ UNCHANGED clock

\* the response arrives with an ok status: response.json() is awaited
ResponseOk ==
  /\ pc = "fetch"
  /\ pc' = "json"
  /\ UNCHANGED <<server, storage, clock, attempt, lastError, calls>>

\* response.json() rejects: the body is not JSON
BodyRejects ==
  /\ pc = "json"
  /\ AttemptFailed("parse_error")
  /\ UNCHANGED clock

\* response.json() resolves: the data is cached raw, then normalized
BodyParsed ==
  /\ pc = "json"
  /\ IF ObjectKeysThrows(server)
     THEN AttemptFailed("type_error")
     ELSE LET outcome == AfterLoop(server)
          IN  \E setItemThrows \in BOOLEAN :
                /\ storage' = cacheGpuData(storage, server, clock, setItemThrows)
                /\ pc' = "idle"
                /\ attempt' = 0
                /\ lastError' = "none"
                /\ calls' = Settle("fetch", outcome, attempt, ~setItemThrows)
                /\ UNCHANGED server
  /\ UNCHANGED clock

\* await new Promise(resolve => setTimeout(resolve, delayMs)) is over and
\* the loop starts the next attempt
BackoffElapses ==
  /\ pc = "backoff"
  /\ clock + delayMs(attempt) <= MaxClock
  /\ clock' = clock + delayMs(attempt)
  /\ attempt' = attempt + 1
  /\ pc' = "fetch"
  /\ UNCHANGED <<server, storage, lastError, calls>>

\* time passes between two calls
Tick ==
  \E d \in TickSteps :
    /\ pc = "idle"
    /\ clock + d <= MaxClock
    /\ clock' = clock + d
    /\ UNCHANGED <<server, storage, pc, attempt, lastError, calls>>

FetchNext ==
  \/ Call
  \/ FetchRejects
  \/ FetchAborted
  \/ ResponseNotOk
  \/ ResponseOk
  \/ BodyRejects
  \/ BodyParsed
  \/ BackoffElapses
  \/ Tick

(***************************************************************************)
(* getCachedGpuList: the list kept in the module                           *)
(***************************************************************************)
MaxListCalls == 3
MaxInFlight == 2

\* let cachedGpuList = null
ListIdle ==
  /\ cachedGpuList = JNull
  /\ listCalls = <<>>

\* the pages getCachedGpuList is followed on: the API serves a catalog, an
\* empty catalog or null, and localStorage is empty or holds what an earlier
\* load wrote, an array a minute ago or a catalog 24 hours ago
ListServerBodies == {Catalog_Typical, Catalog_Empty, JNull}
ListStoredItems ==
  {NoItem,
   cacheGpuData(NoItem, Body_DeviceArray, StartClock - 60 * 1000, FALSE),
   cacheGpuData(NoItem, Catalog_Typical, StartClock - CACHE_EXPIRATION, FALSE)}

ListInit ==
  /\ FetchInit
  /\ server \in ListServerBodies
  /\ storage \in ListStoredItems

\* cachedGpuList && cachedGpuList.length > 0: an object that is not an array
\* has no length
HasEntries(list) == list.t = "array" /\ Len(Devices(list)) > 0

\* a call of getCachedGpuList: where it stands, the value processGpuData
\* returned to it or it resolved with, and whether it called processGpuData
ListCall(state, value, ran) ==
  [state |-> state, value |-> value, ran |-> ran, attempt |-> 0, due |-> 0]

\* a call whose processGpuData is in the retry loop: the attempt, and the
\* time the timer that is set fires (the abort of fetchWithTimeout, or the
\* end of the delay)
InLoop(state, attempt_, due) ==
  [state |-> state, value |-> JNull, ran |-> TRUE, attempt |-> attempt_, due |-> due]

\* the calls that have not resolved yet
InFlight == {i \in 1..Len(listCalls) : listCalls[i].state # "resolved"}

\* getCachedGpuList() up to its await.  A list with entries is returned as
\* it is.  Otherwise processGpuData is called and runs up to its own first
\* await: it reads the localStorage cache, returns a hit, and starts the
\* first attempt on a miss.
GetCachedGpuList ==
  /\ Len(listCalls) < MaxListCalls
  /\ Cardinality(InFlight) < MaxInFlight
  /\ IF HasEntries(cachedGpuList)
     THEN /\ listCalls' = Append(listCalls, ListCall("resolved", cachedGpuList, FALSE))
          /\ UNCHANGED storage
     ELSE LET cachedData == getCachedGpuData(storage, clock)
          IN  /\ storage' = cachedData.storage
              /\ listCalls' =
                    Append(listCalls,
                           IF Truthy(cachedData.value)
                           THEN ListCall("awaiting", cachedData.value, TRUE)
                           ELSE InLoop("fetch", 1, clock + FETCH_TIMEOUT))
  /\ UNCHANGED <<cachedGpuList, server, clock, pc, attempt, lastError, calls>>

\* an attempt of the processGpuData of call i failed: it waits before the
\* next attempt, or leaves the loop with data = null and returns
\* defaultGpuList
AttemptOfCallFailed(i) ==
  /\ listCalls' =
       [listCalls EXCEPT ![i] =
          IF @.attempt < MAX_RETRIES
          THEN InLoop("backoff", @.attempt, clock + delayMs(@.attempt))
          ELSE ListCall("awaiting", DefaultListRef, TRUE)]
  /\ UNCHANGED <<cachedGpuList, server, storage, clock, pc, attempt, lastError, calls>>

\* the fetch of call i rejects, or its response has a status that is not ok
FetchOfCallFails ==
  \E i \in 1..Len(listCalls) :
    /\ listCalls[i].state = "fetch"
    /\ AttemptOfCallFailed(i)

\* the timer of fetchWithTimeout fires and aborts the request of call i
FetchOfCallAborted ==
  \E i \in 1..Len(listCalls) :
    /\ listCalls[i].state = "fetch"
    /\ clock >= listCalls[i].due
    /\ AttemptOfCallFailed(i)

\* the response of call i arrives with an ok status: the timer is cleared
\* and response.json() is awaited
ResponseOfCallOk ==
  \E i \in 1..Len(listCalls) :
    /\ listCalls[i].state = "fetch"
    /\ listCalls' = [listCalls EXCEPT ![i] = InLoop("json", @.attempt, 0)]
    /\ UNCHANGED <<cachedGpuList, server, storage, clock, pc, attempt, lastError, calls>>

\* response.json() of call i rejects, or resolves with null and Object.keys
\* throws
BodyOfCallFails ==
  \E i \in 1..Len(listCalls) :
    /\ listCalls[i].state = "json"
    /\ AttemptOfCallFailed(i)

\* response.json() of call i resolves: the data is cached with the time of
\* this moment and normalized, and processGpuData returns the list
BodyOfCallParsed ==
  \E i \in 1..Len(listCalls), setItemThrows \in BOOLEAN :
    /\ listCalls[i].state = "json"
    /\ ~ObjectKeysThrows(server)
    /\ storage' = cacheGpuData(storage, server, clock, setItemThrows)
    /\ listCalls' =
         [listCalls EXCEPT ![i] = ListCall("awaiting", AfterLoop(server).value, TRUE)]
    /\ UNCHANGED <<cachedGpuList, server, clock, pc, attempt, lastError, calls>>

\* the delay of call i is over and its loop starts the next attempt
BackoffOfCallElapses ==
  \E i \in 1..Len(listCalls) :
    /\ listCalls[i].state = "backoff"
    /\ clock >= listCalls[i].due
    /\ listCalls' =
         [listCalls EXCEPT ![i] =
            InLoop("fetch", @.attempt + 1, clock + FETCH_TIMEOUT)]
    /\ UNCHANGED <<cachedGpuList, server, storage, clock, pc, attempt, lastError, calls>>

\* const freshList = await processGpuData() of call i resumes:
\* cachedGpuList = freshList; return freshList
Resume ==
  \E i \in 1..Len(listCalls) :
    /\ listCalls[i].state = "awaiting"
    /\ cachedGpuList' = listCalls[i].value
    /\ listCalls' = [listCalls EXCEPT ![i] = ListCall("resolved", @.value, TRUE)]
    /\ UNCHANGED <<server, storage, clock, pc, attempt, lastError, calls>>

\* the times at which the timers that are set fire
Timers ==
  {listCalls[i].due :
     i \in {j \in 1..Len(listCalls) : listCalls[j].state \in {"fetch", "backoff"}}}

\* time passes: up to the next timer, or a day between two calls
ListTick ==
  /\ IF Timers = {}
     THEN /\ InFlight = {}
          /\ clock + CACHE_EXPIRATION <= MaxClock
          /\ clock' = clock + CACHE_EXPIRATION
     ELSE /\ \A due \in Timers : clock < due
          /\ clock' \in Timers
          /\ \A due \in Timers : clock' <= due
  /\ UNCHANGED <<server, storage, pc, attempt, lastError, calls, listVars>>

ListNext ==
  \/ GetCachedGpuList
  \/ FetchOfCallFails
  \/ FetchOfCallAborted
  \/ ResponseOfCallOk
  \/ BodyOfCallFails
  \/ BodyOfCallParsed
  \/ BackoffOfCallElapses
  \/ Resume
  \/ ListTick

(***************************************************************************)
(* App: the form, the calculation effect and the fetch of the mount effect *)
(***************************************************************************)
\* The estimates of the configurations of the form, computed once; the
\* estimate of any other configuration is computed when asked.
InputConfigs ==
  ModelParamsValues \X QuantizationValues \X ContextLengthValues \X BatchSizeValues

AmountsTable == [k \in InputConfigs |-> Amounts(k[1], k[2], k[3], k[4])] @@ <<>>

HardwareTable ==
  [k \in InputConfigs |->
     ReturnedObject(AmountsTable[k], estimateLayers(k[1]), estimateHiddenDim(k[1]),
                    getBytesPerParameter(k[2]))] @@ <<>>

\* the amounts of calculateHardware before rounding
AmountsAt(mp, q, cl, bs) ==
  FirstOr(Found(AmountsTable, <<mp, q, cl, bs>>), Amounts(mp, q, cl, bs))

\* const calculationResults = calculateHardware(modelParams, quantization,
\*   contextLength, batchSize, isUnifiedMemory, 1)
CalculationEffect(mp, q, cl, bs, um) ==
  FirstOr(Found(HardwareTable, <<mp, q, cl, bs>>),
          CallCalculateHardware(<<mp, q, cl, bs, um, 1>>))

\* the bodies of the API the page of the model is served with
AppServerBodies == {Catalog_Typical, Catalog_Empty}

\* What getCachedGpuList() resolves with: the list processGpuData returns
\* after a fetch, defaultGpuList, or the data of the localStorage cache as it
\* was stored.
FetchedGpuLists ==
  {AfterLoop(body).value : body \in AppServerBodies}
    \cup {DefaultListRef}
    \cup {body \in AppServerBodies : Truthy(body)}

\* The state of the first render: the initial values of useState.  The
\* effects of the mount have not run yet.
CalcInit ==
  /\ modelParams = 700
  /\ quantization = "FP16"
  /\ contextLength = 4096
  /\ batchSize = 1
  /\ isUnifiedMemory = FALSE
  /\ results = Null
  /\ gpuListLoading = TRUE
  /\ effectPending = TRUE
  /\ mountFetch = "scheduled"

\* A handler of the form only stores the value.  React renders again when
\* the value is a new one, and that render schedules the calculation
\* effect, which depends on it.  React runs the effects of a render before
\* it handles the next event.
OnModelParams(v) ==
  /\ ~effectPending
  /\ modelParams' = v
  /\ effectPending' = (v # modelParams)
  /\ UNCHANGED <<quantization, contextLength, batchSize, isUnifiedMemory,
                 results, gpuListLoading, mountFetch>>

OnQuantization(v) ==
  /\ ~effectPending
  /\ quantization' = v
  /\ effectPending' = (v # quantization)
  /\ UNCHANGED <<modelParams, contextLength, batchSize, isUnifiedMemory,
                 results, gpuListLoading, mountFetch>>

OnContextLength(v) ==
  /\ ~effectPending
  /\ contextLength' = v
  /\ effectPending' = (v # contextLength)
  /\ UNCHANGED <<modelParams, quantization, batchSize, isUnifiedMemory,
                 results, gpuListLoading, mountFetch>>

OnBatchSize(v) ==
  /\ ~effectPending
  /\ batchSize' = v
  /\ effectPending' = (v # batchSize)
  /\ UNCHANGED <<modelParams, quantization, contextLength, isUnifiedMemory,
                 results, gpuListLoading, mountFetch>>

\* onClick={() => setIsUnifiedMemory(false)} / setIsUnifiedMemory(true)
OnIsUnifiedMemory(v) ==
  /\ ~effectPending
  /\ isUnifiedMemory' = v
  /\ effectPending' = (v # isUnifiedMemory)
  /\ UNCHANGED <<modelParams, quantization, contextLength, batchSize,
                 results, gpuListLoading, mountFetch>>

\* The mount effect up to its await: setGpuListLoading(true) and the call of
\* getCachedGpuList().  It is declared before the calculation effect and runs
\* before it after the first render.
MountEffectStarts ==
  /\ mountFetch = "scheduled"
  /\ gpuListLoading' = TRUE
  /\ mountFetch' = "waiting"
  /\ UNCHANGED <<modelParams, quantization, contextLength, batchSize,
                 isUnifiedMemory, results, effectPending>>

\* The calculation effect: setResults(calculationResults), with the inputs
\* of the render that scheduled it.
CalculationEffectSetsResults ==
  /\ effectPending
  /\ mountFetch # "scheduled"
  /\ results' = CalculationEffect(modelParams, quantization, contextLength,
                                  batchSize, isUnifiedMemory)
  /\ effectPending' = FALSE
  /\ UNCHANGED <<modelParams, quantization, contextLength, batchSize,
                 isUnifiedMemory, gpuListLoading, mountFetch>>

\* getCachedGpuList() resolved and fetchGpuData resumes; finally
\* setGpuListLoading(false)
MountEffectResumes ==
  /\ mountFetch = "waiting"
  /\ gpuListLoading' = FALSE
  /\ mountFetch' = "settled"
  /\ UNCHANGED <<modelParams, quantization, contextLength, batchSize,
                 isUnifiedMemory, results, effectPending>>

\* the argument of setGpuList: a list with entries becomes the gpuList,
\* anything else is replaced by defaultGpuList
StoredGpuList(fetchedGpuList) ==
  IF HasEntries(fetchedGpuList) THEN Devices(fetchedGpuList) ELSE defaultGpuList

\* The page without the panel of the recommendations: no render touches the
\* gpuList.
SetModelParams ==
  \E v \in ModelParamsValues : OnModelParams(v) /\ UNCHANGED gpuList

SetQuantization ==
  \E v \in QuantizationValues : OnQuantization(v) /\ UNCHANGED gpuList

SetContextLength ==
  \E v \in ContextLengthValues : OnContextLength(v) /\ UNCHANGED gpuList

SetBatchSize ==
  \E v \in BatchSizeValues : OnBatchSize(v) /\ UNCHANGED gpuList

SetIsUnifiedMemory ==
  \E v \in BOOLEAN : OnIsUnifiedMemory(v) /\ UNCHANGED gpuList

FetchGpuData == MountEffectStarts /\ UNCHANGED gpuList

CalculationEffectRuns == CalculationEffectSetsResults /\ UNCHANGED gpuList

GpuListFetched ==
  \E fetchedGpuList \in FetchedGpuLists :
    /\ MountEffectResumes
    /\ gpuList' = StoredGpuList(fetchedGpuList)

CalcNext ==
  \/ SetModelParams
  \/ SetQuantization
  \/ SetContextLength
  \/ SetBatchSize
  \/ SetIsUnifiedMemory
  \/ FetchGpuData
  \/ CalculationEffectRuns
  \/ GpuListFetched

(***************************************************************************)
(* App: the page with the panel of the recommendations                     *)
(***************************************************************************)
\* What getCachedGpuList() resolves with: defaultGpuList, the list
\* processGpuData built from a fetched catalog, or the array of the
\* localStorage cache, which holds whatever records the API served (a record
\* of the JSON is written as the device record JsonOf makes it from).
RecFetchedGpuLists == {DefaultListRef} \cup {JArr(list) : list \in GpuLists}

\* the array `value`, once its entries are those of list
ArrayWith(value, list) == IF Devices(value) = list THEN value ELSE JArr(list)

\* The render after a change of state, with the state gpuList referring to
\* the array list and the module variable cachedGpuList holding cached.
\* Nothing is shown without results ({results && ...}), the spinner is shown
\* while the list is loading, and else recommendOptimalGpuSetup(results,
\* gpuList, isUnifiedMemory) is called.  A list with entries that
\* getCachedGpuList resolved with is the array cachedGpuList refers to.
Render(list, cached) ==
  /\ IF results' # Null /\ ~gpuListLoading'
     THEN /\ recRequirements' = results'
          /\ recIsUnified' = isUnifiedMemory'
          /\ recommendations' =
               recommendOptimalGpuSetup(results', list, isUnifiedMemory')
          /\ gpuList' = availableGpusAfterCall(results', list, isUnifiedMemory')
     ELSE /\ recRequirements' = Null
          /\ recIsUnified' = FALSE
          /\ recommendations' = Null
          /\ gpuList' = list
  /\ cachedGpuList' =
       IF HasEntries(cached) THEN ArrayWith(cached, gpuList') ELSE cached

RecSetModelParams ==
  \E v \in RecModelParamsValues : OnModelParams(v) /\ Render(gpuList, cachedGpuList)

RecSetQuantization ==
  \E v \in RecQuantizationValues : OnQuantization(v) /\ Render(gpuList, cachedGpuList)

RecSetContextLength ==
  \E v \in RecContextLengthValues : OnContextLength(v) /\ Render(gpuList, cachedGpuList)

RecSetBatchSize ==
  \E v \in RecBatchSizeValues : OnBatchSize(v) /\ Render(gpuList, cachedGpuList)

RecSetIsUnifiedMemory ==
  \E v \in BOOLEAN : OnIsUnifiedMemory(v) /\ Render(gpuList, cachedGpuList)

RecFetchGpuData == MountEffectStarts /\ Render(gpuList, cachedGpuList)

RecCalculationEffectRuns ==
  CalculationEffectSetsResults /\ Render(gpuList, cachedGpuList)

\* getCachedGpuList() assigns the list to cachedGpuList and resolves with it,
\* and fetchGpuData resumes
RecGpuListFetched ==
  \E fetchedGpuList \in RecFetchedGpuLists :
    /\ MountEffectResumes
    /\ Render(StoredGpuList(fetchedGpuList), fetchedGpuList)

RecNext ==
  \/ RecSetModelParams
  \/ RecSetQuantization
  \/ RecSetContextLength
  \/ RecSetBatchSize
  \/ RecSetIsUnifiedMemory
  \/ RecFetchGpuData
  \/ RecCalculationEffectRuns
  \/ RecGpuListFetched

(***************************************************************************)
(* Specifications                                                          *)
(***************************************************************************)
\* const [gpuList, setGpuList] = useState(defaultGpuList); no render has
\* called recommendOptimalGpuSetup
RecIdle ==
  /\ recRequirements = Null
  /\ gpuList = defaultGpuList
  /\ recIsUnified = FALSE
  /\ recommendations = Null

\* App.jsx: the form, the calculation effect and the mount effect
Init == CalcInit /\ RecIdle /\ FetchIdle /\ ListIdle
Next == CalcNext /\ UNCHANGED <<componentVars, fetchVars, listVars>>
Spec == Init /\ [][Next]_vars

\* App.jsx with the recommendations it renders
InitRec == CalcInit /\ RecIdle /\ FetchIdle /\ ListIdle
NextRec == RecNext /\ UNCHANGED <<fetchVars, listCalls>>
SpecRec == InitRec /\ [][NextRec]_vars

\* processGpuData, called up to MaxCalls times
InitFetch == CalcInit /\ RecIdle /\ FetchInit /\ ListIdle
NextFetch == FetchNext /\ UNCHANGED <<calcVars, recVars, listVars>>
SpecFetch == InitFetch /\ [][NextFetch]_vars

\* getCachedGpuList, called up to MaxListCalls times, also while earlier
\* calls are waiting
InitList == CalcInit /\ RecIdle /\ ListInit /\ ListIdle
NextList == ListNext /\ UNCHANGED <<calcVars, recVars>>
SpecList == InitList /\ [][NextList]_vars

\* processGpuData with the timers of the event loop: a timer that was set and
\* not cleared fires (the abort of fetchWithTimeout while fetch is pending,
\* the delay before the next attempt).  What the server does and when, and
\* when the page calls, is left open.
TimerFires(A) == A /\ UNCHANGED <<calcVars, recVars, listVars>>
SpecFetchLive ==
  /\ InitFetch
  /\ [][NextFetch]_vars
  /\ WF_vars(TimerFires(FetchAborted))
  /\ WF_vars(TimerFires(BackoffElapses))

(***************************************************************************)
(* Properties of the recommendation engine (checked under SpecRec)         *)
(***************************************************************************)
Slots == {"optimal", "performance", "budget"}

\* the page shows recommendations: the last render called
\* recommendOptimalGpuSetup(recRequirements, gpuList, recIsUnified)
Rendered == recommendations # Null

\* the non-null recommendations of the rendered result
Returned ==
  IF Rendered THEN {recommendations[s] : s \in Slots} \ {Null} ELSE {}

AllNone ==
  /\ recommendations.optimal = Null
  /\ recommendations.performance = Null
  /\ recommendations.budget = Null

InCatalog(gpu) == \E i \in 1..Len(gpuList) : gpuList[i] = gpu

\* the candidate set the three rankings are taken from
Candidates ==
  IF recIsUnified THEN UnifiedCandidates(recRequirements, gpuList)
  ELSE DiscreteCandidates(recRequirements, gpuList)

\* C1: every returned recommendation is well formed: its count lies in 1..16,
\* its total VRAM is count times the VRAM of the catalog device it names (the
\* product of the two Numbers), and meetsRecommended is true exactly when
\* that total reaches vramRecGB.
C1_WellFormed ==
  \A r \in Returned :
    /\ r.count >= 1
    /\ r.count <= 16
    /\ InCatalog(r.gpu)
    /\ r.totalVram = FMul(FInt(r.count), NumberOf(r.gpu.vram))
    /\ r.meetsRecommended
         <=> (FCmp(r.totalVram, NumberOf(recRequirements.vramRecGB)) >= 0)

\* the cap was applied and the capped configuration was returned, and a
\* configuration of several devices that meets the recommendation was returned
C1_Witness ==
  /\ Rendered
  /\ ~recIsUnified
  /\ recommendations.optimal # Null
  /\ recommendations.optimal.count = 16
  /\ ~recommendations.optimal.meetsRecommended
  /\ recommendations.performance.count = 16

\* C2 (as claimed): every returned recommendation has a total VRAM of at
\* least vramMinGB.
C2_TotalReachesMinimum ==
  \A r \in Returned :
    FCmp(r.totalVram, NumberOf(recRequirements.vramMinGB)) >= 0

\* C3 (as claimed): in discrete mode, when no non-unified device reaches
\* vramMinGB even sixteen times over, all three slots are none.
C3_NoneWhenUnreachable ==
  (Rendered /\ ~recIsUnified
     /\ \A i \in 1..Len(gpuList) :
          IsUnifiedOf(gpuList[i])
          \/ 16 * gpuList[i].vram < recRequirements.vramMinGB)
  => AllNone

\* C7 (as claimed): when some candidate meets the recommended VRAM, each of
\* the three returned slots meets it.
C7_MeetsRecommendedFirst ==
  (Rendered /\ \E i \in 1..Len(Candidates) : Candidates[i].meetsRecommended)
  => \A r \in Returned : r.meetsRecommended

\* C8: in unified mode every returned recommendation is one unit of a catalog
\* device flagged isUnified whose memory reaches vramMinGB, and without such a
\* device all three slots are none.
C8_UnifiedSingleDevice ==
  (Rendered /\ recIsUnified) =>
    /\ \A r \in Returned :
         /\ r.count = 1
         /\ InCatalog(r.gpu)
         /\ IsUnifiedOf(r.gpu)
         /\ r.gpu.vram >= recRequirements.vramMinGB
    /\ (~ \E i \in 1..Len(gpuList) :
            IsUnifiedOf(gpuList[i])
            /\ gpuList[i].vram >= recRequirements.vramMinGB)
       => AllNone

\* unified mode returned a device although the catalog also holds discrete
\* devices with enough memory
C8_Witness ==
  /\ Rendered
  /\ recIsUnified
  /\ recommendations.optimal # Null
  /\ recommendations.budget # Null
  /\ \E i \in 1..Len(gpuList) :
       ~IsUnifiedOf(gpuList[i]) /\ gpuList[i].vram >= recRequirements.vramMinGB

(***************************************************************************)
(* Properties of the memory estimator (checked under Spec)                 *)
(***************************************************************************)
\* the calculation effect has run for the inputs of the form: results is
\* what calculateHardware returned for them
Calculated == results # Null /\ ~effectPending

\* C4: the recommended figures calculateHardware returns are never below
\* the minimum figures.
C4_RecAtLeastMin ==
  results # Null =>
    /\ results.vramRecGB >= results.vramMinGB
    /\ results.ramRecGB >= results.ramMinGB

\* the estimator ran on a small model with a one-token context, where the
\* KV cache rounds to nothing
C4_Witness ==
  /\ Calculated
  /\ modelParams = 50
  /\ quantization = "INT2"
  /\ contextLength = 1
  /\ results.kvCacheGB = 0
  /\ results.vramRecGB > results.vramMinGB
  /\ results.ramRecGB > results.ramMinGB

\* the cap of a unified-memory system: 512 GB
unifiedMemoryMax == 512 * 100

\* the recommended and minimum figures of a unified-memory system before the cap
OriginalUnifiedRecGB ==
  toFixed2(FAdd(AmountsAt(modelParams, quantization, contextLength, batchSize).vramRecGB,
                FHundredths(osOverheadGB)))
OriginalUnifiedMinGB ==
  toFixed2(FAdd(AmountsAt(modelParams, quantization, contextLength, batchSize).vramMinGB,
                FHundredths(osOverheadGB)))

HasField(r, f) == f \in DOMAIN r

\* C9 (as claimed): for a unified-memory system whose combined requirement
\* exceeds 512 GB the returned recommended (minimum) VRAM and RAM are 512,
\* recExceedsLimit (minExceedsLimit) is true and the uncapped value is kept.
C9_UnifiedCap ==
  /\ (Calculated /\ isUnifiedMemory /\ OriginalUnifiedRecGB > unifiedMemoryMax) =>
       /\ results.vramRecGB = unifiedMemoryMax
       /\ results.ramRecGB = unifiedMemoryMax
       /\ HasField(results, "recExceedsLimit") /\ results.recExceedsLimit
       /\ HasField(results, "originalUnifiedRecGB")
       /\ results.originalUnifiedRecGB = OriginalUnifiedRecGB
  /\ (Calculated /\ isUnifiedMemory /\ OriginalUnifiedMinGB > unifiedMemoryMax) =>
       /\ results.vramMinGB = unifiedMemoryMax
       /\ results.ramMinGB = unifiedMemoryMax
       /\ HasField(results, "minExceedsLimit") /\ results.minExceedsLimit
       /\ HasField(results, "originalUnifiedMinGB")
       /\ results.originalUnifiedMinGB = OriginalUnifiedMinGB

(***************************************************************************)
(* Properties of processGpuData (checked under SpecFetch)                  *)
(***************************************************************************)
\* the call made all its attempts and none gave data
AllAttemptsFailed(call) ==
  /\ call.origin = "fallback"
  /\ call.attempts = MAX_RETRIES

\* a device record has a name and a size, as a record of the program or as
\* the JSON of one
IsDeviceRecord(x) ==
  IF "t" \in DOMAIN x
  THEN x.t = "object" /\ {"name", "vram"} \subseteq DOMAIN x.v
  ELSE {"name", "vram"} \subseteq DOMAIN x

\* a catalog: an array of device records
IsCatalog(value) ==
  /\ value.t = "array"
  /\ \A k \in 1..Len(Devices(value)) : IsDeviceRecord(Devices(value)[k])

\* C5 (as claimed): processGpuData never rejects: whatever the cache read and
\* the attempts gave, every call resolves with a catalog, and a call whose
\* three attempts all failed resolves with defaultGpuList.
C5_NeverRejects ==
  \A i \in 1..Len(calls) :
    /\ calls[i].settled = "resolved"
    /\ IsCatalog(calls[i].value)
    /\ AllAttemptsFailed(calls[i]) => calls[i].value = DefaultListRef

\* the call that wrote the cache entry the call j was answered from
PopulatedBy(j) ==
  CHOOSE i \in 1..(j - 1) :
    /\ calls[i].wrote
    /\ \A k \in (i + 1)..(j - 1) : ~calls[k].wrote

\* C6 (as claimed): a call answered from a valid cache entry returns the
\* normalized catalog, the very list the call that populated the cache returned.
C6_CacheHitIsNormalized ==
  \A j \in 1..Len(calls) :
    calls[j].origin = "cache" =>
      /\ calls[j].value.t = "array"
      /\ calls[j].value = calls[PopulatedBy(j)].value

\* the call had the raw catalog in hand: fetched, or read from the cache
SawCatalog(i) == calls[i].origin \in {"fetch", "cache"}

\* C10 (as claimed): two runs of processGpuData over the same raw catalog
\* return the same device list, element for element.
C10_Idempotent ==
  \A i, j \in 1..Len(calls) :
    (SawCatalog(i) /\ SawCatalog(j)) => calls[i].value = calls[j].value

\* the device records of a returned array; a record read from JSON has its
\* size as a number
RecordOf(x) ==
  IF "t" \in DOMAIN x THEN [x.v EXCEPT !.vram = x.v.vram.v] ELSE x
RecordsOf(value) ==
  [k \in 1..Len(Devices(value)) |-> RecordOf(Devices(value)[k])]

\* vram non-increasing and, among devices of equal vram, name ascending
InCanonicalOrder(list) ==
  \A i \in 1..(Len(list) - 1) :
    \/ list[i].vram > list[i + 1].vram
    \/ /\ list[i].vram = list[i + 1].vram
       /\ localeCompare(StringOf(list[i].name), StringOf(list[i + 1].name)) <= 0

\* C11 (as claimed): every device list returned by processGpuData, the
\* fallback list included, is in the canonical catalog order.
C11_CanonicalOrder ==
  \A i \in 1..Len(calls) :
    IsCatalog(calls[i].value) => InCanonicalOrder(RecordsOf(calls[i].value))

\* the call returned a list built from a fetched catalog
Normalized(i) ==
  /\ calls[i].origin = "fetch"
  /\ calls[i].value.t = "array"
  /\ calls[i].value # DefaultListRef

\* the keyword matching of addIsUnifiedProperty finds a unified-memory device
UnifiedByKeywords(gpu) ==
  ~LowerCaseThrows(gpu) /\ addIsUnifiedProperty(gpu).isUnified

\* the requirements of the form as the page opens: 7B, FP16, context 4096,
\* batch 1
DefaultRequirements == CalculationEffect(700, "FP16", 4096, 1, TRUE)

\* C12 (as claimed): every device record built from a fetched catalog carries
\* the isUnified flag that the keyword matching gives, so that a fetched
\* catalog with a unified-memory device of enough memory gets a unified-mode
\* recommendation.
C12_IsUnifiedFlag ==
  \A i \in 1..Len(calls) :
    Normalized(i) =>
      LET list == calls[i].value.v
      IN  /\ \A k \in 1..Len(list) :
               /\ "isUnified" \in DOMAIN list[k]
               /\ list[k].isUnified = UnifiedByKeywords(list[k])
          /\ (\E k \in 1..Len(list) :
                /\ UnifiedByKeywords(list[k])
                /\ list[k].vram >= DefaultRequirements.vramMinGB)
             => recommendOptimalGpuSetup(DefaultRequirements, list, TRUE).optimal # Null

\* the catalog holds only 8 GB non-unified devices and 30 GB are recommended
Only8GbFor30 ==
  /\ Rendered
  /\ ~recIsUnified
  /\ recRequirements.vramRecGB = 3000
  /\ Len(gpuList) > 0
  /\ \A i \in 1..Len(gpuList) :
       gpuList[i].vram = 800 /\ ~IsUnifiedOf(gpuList[i])

\* C13 (as claimed): a returned discrete recommendation that meets the
\* recommended VRAM uses the minimum device count ceil(vramRecGB / gpu.vram);
\* with only 8 GB devices and vramRecGB = 30 the optimal slot is 4 devices,
\* 32 GB, meeting the recommendation.
C13_MinimumCount ==
  /\ (Rendered /\ ~recIsUnified) =>
       \A r \in Returned :
         r.meetsRecommended =>
           r.count = CeilDiv(recRequirements.vramRecGB, r.gpu.vram)
  /\ Only8GbFor30 =>
       /\ recommendations.optimal # Null
       /\ recommendations.optimal.count = 4
       /\ recommendations.optimal.totalVram = NumberOf(3200)
       /\ recommendations.optimal.meetsRecommended

\* C14 (as claimed): in discrete mode every non-unified catalog device with
\* vram > 0 whose count ceil(vramRecGB / vram) is at most 16 is a candidate
\* with that count and meetsRecommended = true, whether or not one unit of it
\* reaches vramMinGB.
C14_EveryDeviceIsCandidate ==
  (Rendered /\ ~recIsUnified) =>
    \A i \in 1..Len(gpuList) :
      (/\ ~IsUnifiedOf(gpuList[i])
       /\ gpuList[i].vram > 0
       /\ CeilDiv(recRequirements.vramRecGB, gpuList[i].vram) <= MAX_GPU_CAP)
      => \E k \in 1..Len(Candidates) :
           /\ Candidates[k].ref = i
           /\ Candidates[k].count =
                CeilDiv(recRequirements.vramRecGB, gpuList[i].vram)
           /\ Candidates[k].meetsRecommended

\* 0.5 * performance + 0.5 * efficiency of a solution
Blend(c) ==
  FAdd(FMul(FHundredths(50), c.performance), FMul(FHundredths(50), c.efficiency))

HigherBlend(a, b) == FCmp(Blend(a), Blend(b)) > 0

\* C15 (as claimed): no candidate with the meetsRecommended status of the
\* optimal slot has a strictly higher blend 0.5 * performance + 0.5 * efficiency
\* than the optimal slot.
C15_OptimalMaximisesBlend ==
  (Rendered /\ recommendations.optimal # Null) =>
    \A k \in 1..Len(Candidates) :
      Candidates[k].meetsRecommended = recommendations.optimal.meetsRecommended
      => ~HigherBlend(Candidates[k], recommendations.optimal)

(***************************************************************************)
(* The KV cache against the context length                                 *)
(***************************************************************************)
\* the cache of the current form with the context length replaced, before
\* rounding
KvCacheAmountAt(c) == AmountsAt(modelParams, quantization, c, batchSize).kvCacheGB

\* what calculateHardware returns for the current form with context length c
KvCacheReturnedAt(c) ==
  CalculationEffect(modelParams, quantization, c, batchSize, isUnifiedMemory).kvCacheGB

Less(x, y) == FCmp(x, y) < 0

LongerContexts == {c \in ContextLengthValues : contextLength >= 1 /\ c > contextLength}

\* C16: for context lengths c1 < c2, all other inputs equal, the kvCacheGB
\* calculateHardware returns for c1 is strictly less than the one for c2.
C16_KvStrictlyIncreasing ==
  Calculated =>
    \A c \in LongerContexts : results.kvCacheGB < KvCacheReturnedAt(c)

\* C16 as the code has it: the cache grows strictly with the context length
\* before rounding, and the returned value, rounded to two decimals, never
\* decreases.
C16_KvNonDecreasing ==
  Calculated =>
    \A c \in LongerContexts :
      /\ Less(KvCacheAmountAt(contextLength), KvCacheAmountAt(c))
      /\ results.kvCacheGB <= KvCacheReturnedAt(c)

\* a 0.5B model at INT2: one token and 512 tokens both return 0.00 GB
C16_Witness ==
  /\ Calculated
  /\ modelParams = 50 /\ quantization = "INT2" /\ batchSize = 1
  /\ contextLength = 1
  /\ results.kvCacheGB = 0
  /\ KvCacheReturnedAt(512) = 0
  /\ Less(KvCacheAmountAt(1), KvCacheAmountAt(512))
  /\ KvCacheReturnedAt(32768) > 0

(***************************************************************************)
(* The model size against the quantization format                          *)
(***************************************************************************)
\* the formats of the chain FP32 -> FP16 -> INT8 -> INT4 -> INT2 that have
\* half the bytes per parameter of the current one
HalvedFormats ==
  {q \in {"FP16", "INT8", "INT4", "INT2"} :
     2 * getBytesPerParameter(q) = getBytesPerParameter(quantization)}

ModelSizeAmountAt(q) == AmountsAt(modelParams, q, contextLength, batchSize).modelSizeGB

ModelSizeReturnedAt(q) ==
  CalculationEffect(modelParams, q, contextLength, batchSize, isUnifiedMemory).modelSizeGB

\* the least parameter count the number input of the form accepts (min="0.1")
MinFormParams == 10

\* C17: for a positive parameter count, a format with half the bytes per
\* parameter strictly decreases the modelSizeGB calculateHardware returns.
C17_HalvingStrictlyDecreases ==
  (Calculated /\ modelParams > 0) =>
    \A q \in HalvedFormats : ModelSizeReturnedAt(q) < results.modelSizeGB

\* C17 as the code has it: the size halves before rounding; the returned
\* size, rounded to two decimals, never increases, and strictly decreases
\* from 0.1B parameters on.
C17_HalvingNeverIncreases ==
  (Calculated /\ modelParams > 0) =>
    \A q \in HalvedFormats :
      /\ Less(ModelSizeAmountAt(q), ModelSizeAmountAt(quantization))
      /\ ModelSizeReturnedAt(q) <= results.modelSizeGB
      /\ modelParams >= MinFormParams => ModelSizeReturnedAt(q) < results.modelSizeGB

\* 0.01B parameters: INT4 and INT2 both return 0.00 GB
C17_Witness ==
  /\ Calculated
  /\ modelParams = 1 /\ quantization = "INT4"
  /\ HalvedFormats = {"INT2"}
  /\ results.modelSizeGB = 0
  /\ ModelSizeReturnedAt("INT2") = 0
  /\ Less(ModelSizeAmountAt("INT2"), ModelSizeAmountAt("INT4"))

(***************************************************************************)
(* Invalid configurations                                                  *)
(***************************************************************************)
InvalidConfiguration == modelParams <= 0 \/ contextLength <= 0

\* C20: no memory estimate is produced for an invalid configuration (a
\* parameter count or a context length that is not positive): once the
\* calculation effect has run for it, the form has no results.
C20_NoEstimateForInvalid ==
  (InvalidConfiguration /\ ~effectPending) => results = Null

(***************************************************************************)
(* The retry loop of processGpuData                                        *)
(***************************************************************************)
InAttempt == pc \in {"fetch", "json"}

\* no call makes more than three attempts, and a call waits only after a
\* failed attempt that is not the last
AttemptsBounded ==
  /\ attempt <= 3
  /\ pc = "backoff" => attempt < 3 /\ lastError # "none"
  /\ \A i \in 1..Len(calls) : calls[i].attempts <= 3

\* a step of the loop: an attempt starts as the first of a new call or after
\* the failed attempt k and a delay of 2^k * 500 ms; a wait starts from a
\* running attempt; the last attempt and a successful attempt end the call
\* at once
LoopStep ==
  /\ (attempt' # attempt /\ attempt' # 0) =>
        \/ pc = "idle" /\ attempt' = 1
        \/ /\ pc = "backoff" /\ attempt' = attempt + 1
           /\ clock' - clock >= (2 ^ attempt) * 500
  /\ (pc' = "backoff" /\ pc # "backoff") =>
        InAttempt /\ attempt' = attempt /\ lastError' # "none"
  /\ (InAttempt /\ attempt = 3 /\ pc' \notin {"fetch", "json"}) =>
        /\ pc' = "idle" /\ Len(calls') = Len(calls) + 1
        /\ clock' - clock \in {0, 5000}
  /\ Len(calls') > Len(calls) => pc' = "idle" /\ attempt' = 0

\* C18: a call makes at most 3 fetch attempts; attempt k+1 starts only after
\* attempt k failed and a delay of 2^k * 500 ms elapsed; no delay follows the
\* last attempt and no attempt follows a successful one.
C18_BoundedRetries == []AttemptsBounded /\ [][LoopStep]_vars

\* three failed attempts with the two delays of 1000 and 2000 ms between
\* them, and the static list returned right after the third
C18_Witness ==
  /\ Len(calls) = 1
  /\ calls[1].origin = "fallback" /\ calls[1].attempts = 3
  /\ clock = StartClock + 3000
  /\ pc = "idle"

(***************************************************************************)
(* Termination of a call                                                   *)
(***************************************************************************)
\* C19: every call of processGpuData eventually returns, whatever the server
\* does: the request and the reading of the response body are each ended by
\* success, by an error or by the timeout.
C19_CallReturns == (pc # "idle") ~> (pc = "idle")

(***************************************************************************)
(* The model size and the minimum VRAM                                     *)
(***************************************************************************)
\* the tags of the quantization table
KnownTags ==
  {"FP32", "FP16", "BF16", "INT8", "FP8", "E5M2", "E4M3", "INT5", "INT4", "NF4",
   "GPTQ4", "INT3", "INT2", "GGUF_Q4_0", "GGUF_Q4_1", "GGUF_Q5_0", "GGUF_Q5_1",
   "GGUF_Q8_0", "GGUF_Q2_K", "GGUF_Q3_K", "GGUF_Q6_K"}

\* bits per parameter of the current format as the claim gives them: within
\* 0.25 .. 4 bytes for a known tag, 2 bytes for any other
BitsInRange(q) ==
  IF q \in KnownTags
  THEN 2 <= getBytesPerParameter(q) /\ getBytesPerParameter(q) <= 32
  ELSE getBytesPerParameter(q) = 16

\* h is x rounded to the nearest integer, x = n * m / d for naturals n, m, d:
\* (2h - 1) * d <= 2 * n * m < (2h + 1) * d
IsRounded(h, n, m, d) ==
  LET Near(x) == /\ x.q = h \/ x.q = h - 1
                 /\ x.q = h => 2 * x.r < d
                 /\ x.q = h - 1 => 2 * x.r >= d
  IN  Near(MulDivMod(m, n, d))

\* C21: modelSizeGB = round2(parametersBillions * 1e9 * bytesPerParameter(q)
\* / 2^30) with a total table of bytes per parameter (0.25 .. 4 for a known
\* tag, 2 otherwise), and vramMinGB = round2(model size + 1.5); 7B at FP16
\* gives 13.04 and 14.54, 7B at INT4 gives 3.26.
C21_ModelSizeAndVramMin ==
  /\ \A q \in KnownTags \cup QuantizationValues : BitsInRange(q)
  /\ Calculated =>
        /\ IsRounded(results.modelSizeGB,
                     modelParams * getBytesPerParameter(quantization), 1953125, 16777216)
        /\ IsRounded(results.vramMinGB - 150,
                     modelParams * getBytesPerParameter(quantization), 1953125, 16777216)
        /\ (modelParams = 700 /\ quantization = "FP16") =>
              results.modelSizeGB = 1304 /\ results.vramMinGB = 1454
        /\ (modelParams = 700 /\ quantization = "INT4") => results.modelSizeGB = 326

\* the 7B scenario at INT4 with the default context and batch
C21_Witness ==
  /\ Calculated
  /\ modelParams = 700 /\ quantization = "INT4"
  /\ contextLength = 4096 /\ batchSize = 1
  /\ results.modelSizeGB = 326 /\ results.vramMinGB = 476

(***************************************************************************)
(* The KV cache formula                                                    *)
(***************************************************************************)
\* layers * hiddenDim / 1024 of the bucket pair of a parameter count
BucketProduct ==
  IF modelParams <= 100 THEN (12 * 768) \div 1024
  ELSE IF modelParams <= 700 THEN (32 * 4096) \div 1024
  ELSE IF modelParams <= 1300 THEN (40 * 5120) \div 1024
  ELSE IF modelParams <= 7000 THEN (80 * 8192) \div 1024
  ELSE (96 * 12288) \div 1024

\* h is round2(2 * layers * hiddenDim * contextLength * batchSize * b / 2^30)
\* for the format q of the cache, in hundredths of a GB
IsKvCache(h, q) ==
  IsRounded(h, contextLength * batchSize * getBytesPerParameter(q),
            25 * BucketProduct, 1048576)

\* a KV quantization of the form: unset, or a tag
KvQuantizationValues == {"", "INT8", "FP32"}

\* calculateHardware(modelParams, quantization, kvQuantization, contextLength,
\* batchSize, isUnifiedMemory, 1): the third argument is bound to
\* contextLength and the fourth to batchSize
KvCacheOfCall(kvQuantization) ==
  KvCacheForStringContext(modelParams, quantization, kvQuantization, contextLength)

\* C22: kvCacheGB = 2 * layers * hiddenDim * contextLength * batchSize * b /
\* 2^30 for the bucket pair of the parameter count, with b the bytes of the
\* KV quantization when one is set and of the weight quantization otherwise;
\* the arguments (modelParams, quantization, kvQuantization, contextLength,
\* batchSize, ...) are taken in that role.
C22_KvCacheFormula ==
  Calculated =>
    /\ IsKvCache(results.kvCacheGB, quantization)
    /\ \A kvQuantization \in KvQuantizationValues :
          /\ ~KvCacheOfCall(kvQuantization).nan
          /\ IsKvCache(KvCacheOfCall(kvQuantization).v,
                       IF kvQuantization = "" THEN quantization ELSE kvQuantization)

(***************************************************************************)
(* Memory fields that list several sizes                                   *)
(***************************************************************************)
\* the numbers written in s
ListedSizes(s) ==
  {parseInt(SubSeq(s, i, DigitRunEnd(s, i))) : i \in DigitRunStarts(s)}

MaxOf(S) == CHOOSE x \in S : \A y \in S : y <= x

\* a raw record whose only memory field is a text with a unit that lists
\* several sizes ("A-B GB", "A/B GB", "A GB, B GB")
ListsSeveralSizes(gpu) ==
  /\ gpu.t = "object"
  /\ {f \in DOMAIN gpu.v : \E k \in 1..Len(memoryFields) : memoryFields[k] = f}
       = {"Memory"}
  /\ gpu.v["Memory"].t = "string"
  /\ BasicMatch(gpu.v["Memory"].v) # NullMatch
  /\ Cardinality(DigitRunStarts(gpu.v["Memory"].v)) >= 2

\* the values of Object.entries(data) of the fetched body
FetchedRecords ==
  IF \E i \in 1..Len(calls) : Normalized(i)
  THEN (IF server.t = "object" THEN {server.v[k].value : k \in 1..Len(server.v)}
        ELSE IF server.t = "array" THEN {server.v[k] : k \in 1..Len(server.v)}
        ELSE {})
  ELSE {}

\* C23: direct field extraction from a text with a unit that lists several
\* sizes gives the largest of them, in whatever order they are written.
C23_LargestListedSize ==
  \A gpu \in FetchedRecords :
    ListsSeveralSizes(gpu) =>
      extractMemorySize(gpu) =
        [num |-> 100 * MaxOf(ListedSizes(gpu.v["Memory"].v)), den |-> 1]

(***************************************************************************)
(* Ties in the rankings                                                    *)
(***************************************************************************)
\* two candidates that no ranking can tell apart: equal in every key any of
\* the comparators reads
TiedOnEveryKey(a, b) ==
  /\ a.count = b.count
  /\ a.totalVram = b.totalVram
  /\ a.meetsRecommended = b.meetsRecommended
  /\ a.performance = b.performance
  /\ a.efficiency = b.efficiency

\* C24: under an exact tie the candidate with the lower count is returned,
\* and among equal counts the one with the lexicographically smaller device
\* name, whatever the order of the catalog: a returned candidate has the
\* smallest name among the candidates tied with it on every key.
C24_TieBreakByName ==
  \A s \in Slots :
    (Rendered /\ recommendations[s] # Null) =>
      \A k \in 1..Len(Candidates) :
        TiedOnEveryKey(recommendations[s], Candidates[k]) =>
          localeCompare(NameOf(recommendations[s].gpu), NameOf(Candidates[k].gpu)) <= 0

(***************************************************************************)
(* The list kept in the module                                             *)
(***************************************************************************)
ResolvedListCalls == {i \in 1..Len(listCalls) : listCalls[i].state = "resolved"}

\* C25: for any number and interleaving of getCachedGpuList calls,
\* processGpuData runs at most once and every caller receives the same list.
C25_ProducedOnce ==
  /\ Cardinality({i \in 1..Len(listCalls) : listCalls[i].ran}) <= 1
  /\ \A i, j \in ResolvedListCalls : listCalls[i].value = listCalls[j].value

\* a call that starts after a call has resolved with a list with entries
\* resolves at once with that list, without calling processGpuData and
\* without reading localStorage
LaterCallReturnsSame ==
  Len(listCalls') = Len(listCalls) + 1 =>
    \A j \in ResolvedListCalls :
      HasEntries(listCalls[j].value) =>
        /\ listCalls'[Len(listCalls')] = ListCall("resolved", listCalls[j].value, FALSE)
        /\ storage' = storage

\* C29: once getCachedGpuList has resolved with a non-empty list, every
\* later call returns that same list without a further fetch or read of
\* localStorage, the static list after a failed fetch included.
C29_CachedForever == [][LaterCallReturnsSame]_vars

(***************************************************************************)
(* The order of the VRAM sources                                           *)
(***************************************************************************)
\* the known memory fields of a raw record that hold a usable value, by
\* their priority
UsableFields(gpu) ==
  {k \in 1..Len(memoryFields) :
     /\ FieldBreaks(gpu, memoryFields[k])
     /\ FieldMemSize(gpu, memoryFields[k]) > 0}

\* the raw records of the fetched catalog that are not skipped
FetchedDevices ==
  {gpu \in FetchedRecords : gpu.t = "object" /\ HasProp(gpu, "Model")}

\* C26: the VRAM of a record is the usable value of its known memory field
\* of highest priority; the name is consulted only if no known field holds a
\* usable value.  An unusable value in a field of higher priority never
\* shadows a usable one.
C26_FirstUsableFieldWins ==
  \A gpu \in FetchedDevices :
    IF UsableFields(gpu) = {}
    THEN extractMemorySize(gpu).num = 0
    ELSE extractMemorySize(gpu).num =
           FieldMemSize(gpu, memoryFields[CHOOSE k \in UsableFields(gpu) :
                                            \A j \in UsableFields(gpu) : k <= j])

(***************************************************************************)
(* The catalog is shared and only read                                     *)
(***************************************************************************)
\* setGpuList is called: the mount effect resumes with the list
\* getCachedGpuList() assigned to cachedGpuList and resolved with
ListStored == mountFetch = "waiting" /\ mountFetch' = "settled"

\* what a step of the page does to the two references to the catalog
CatalogStep ==
  IF ListStored
  THEN /\ cachedGpuList' \in RecFetchedGpuLists
       /\ gpuList' = StoredGpuList(cachedGpuList')
  ELSE /\ gpuList' = gpuList
       /\ cachedGpuList' = cachedGpuList

\* C27: the catalog is only read.  A render, which calls
\* recommendOptimalGpuSetup with the gpuList, leaves the array as it was: the
\* same devices in the same order, no record changed.  The gpuList and the
\* module variable cachedGpuList change only where getCachedGpuList assigns
\* the list and the page stores it, as a whole.
C27_CatalogUnchanged == [][CatalogStep]_vars

\* recommendations for discrete memory were computed from the array that
\* cachedGpuList refers to; its first device is a unified one, which the
\* filter drops, and the device chosen is the second
C27_Witness ==
  /\ Rendered
  /\ ~recIsUnified
  /\ Len(gpuList) = 2
  /\ cachedGpuList = JArr(gpuList)
  /\ IsUnifiedOf(gpuList[1])
  /\ recommendations.optimal # Null
  /\ recommendations.optimal.gpu = gpuList[2]

(***************************************************************************)
(* The persisted cache expires after 24 hours                              *)
(***************************************************************************)
\* the entry of localStorage exists, parses and is less than 24 hours old
FreshEntry ==
  /\ storage.item = "json"
  /\ clock - storage.timestamp < CACHE_EXPIRATION

\* processGpuData is called: the step that reads the cache
CacheRead == pc = "idle" /\ (calls' # calls \/ pc' # pc)

\* what a call does with the entry it finds
ExpiryStep ==
  CacheRead =>
    IF FreshEntry
    THEN /\ storage' = storage
         /\ IF Truthy(storage.data)
            THEN /\ calls' = Append(calls, calls'[Len(calls')])
                 /\ calls'[Len(calls')].origin = "cache"
                 /\ calls'[Len(calls')].value = storage.data
                 /\ pc' = "idle"
            ELSE pc' = "fetch" /\ calls' = calls
    ELSE /\ pc' = "fetch"
         /\ attempt' = 1
         /\ calls' = calls
         /\ storage' = IF storage.item = "json" THEN NoItem ELSE storage

\* C28: a call serves the stored data only from an entry that exists, parses
\* and is less than 24 hours old; any other entry is not served, an expired
\* one is removed, and the call starts a fetch cycle.
C28_CacheExpires == [][ExpiryStep]_vars

\* a call was served from the entry an earlier load of the page had written,
\* the entry reached the age of 24 hours, and the next call removed it and
\* is fetching
C28_Witness ==
  /\ Len(calls) = 1
  /\ calls[1].origin = "cache"
  /\ ~calls[1].wrote
  /\ clock > StartClock
  /\ storage = NoItem
  /\ pc = "fetch"
  /\ attempt = 1

\* a first call wrote the entry and a call one millisecond before the limit
\* was served from it
C28_ServedBeforeLimit ==
  /\ Len(calls) = 2
  /\ calls[1].wrote
  /\ calls[2].origin = "cache"
  /\ clock = StartClock + CACHE_EXPIRATION - 1

(***************************************************************************)
(* Discrete mode always finds a candidate                                  *)
(***************************************************************************)
\* the catalog holds a device that is not unified and has some VRAM
HasDiscreteDevice ==
  \E i \in 1..Len(gpuList) : ~IsUnifiedOf(gpuList[i]) /\ gpuList[i].vram > 0

\* C30: in discrete mode the three slots are none exactly when the catalog
\* holds no device that is not unified and has some VRAM; with such a device
\* the candidate set is not empty, whatever the requirements, and every slot
\* is filled from it, so the branch of the single 'minimum solution' is not
\* taken.
C30_NoneIffNoDiscreteDevice ==
  (Rendered /\ ~recIsUnified) =>
    /\ AllNone <=> ~HasDiscreteDevice
    /\ HasDiscreteDevice =>
         /\ Len(DiscreteCandidates(recRequirements, gpuList)) > 0
         /\ \A s \in Slots :
              /\ recommendations[s] # Null
              /\ \E k \in 1..Len(DiscreteCandidates(recRequirements, gpuList)) :
                   recommendations[s] =
                     DiscreteCandidates(recRequirements, gpuList)[k]

\* the only discrete device of the catalog is below the minimum requirement
\* even sixteen times over, next to a unified device, and the slots are filled
C30_Witness ==
  /\ Rendered
  /\ ~recIsUnified
  /\ Len(gpuList) = 2
  /\ IsUnifiedOf(gpuList[1])
  /\ ~IsUnifiedOf(gpuList[2])
  /\ 16 * gpuList[2].vram < recRequirements.vramMinGB
  /\ recommendations.optimal # Null
  /\ recommendations.optimal.count = 16

\* a catalog of unified devices only leaves the three slots none
C30_WitnessNone ==
  /\ Rendered
  /\ ~recIsUnified
  /\ Len(gpuList) = 2
  /\ AllNone

====
